---------------------------- MODULE Spec2Model ----------------------------
(***************************************************************************)
(* Camera-path synthesis and crossfade scheduling of the tectonic globe    *)
(* animation (scripts/compute_camera_path.py, scripts/generate_frames.py,  *)
(* scripts/render_globe.py, scripts/render_flat.py,                        *)
(* scripts/render_remaining.py, scripts/test_crossfade.py).                *)
(*                                                                         *)
(* Conventions.  Python lists are TLA+ sequences, so the Python element    *)
(* x[i] is x[i + 1] here; every index kept in the state (anim_frame,       *)
(* geo_frame_idx, run_start, the keys of crossfade_map, loop counters) is  *)
(* the 0-based Python value.  A Python dict is a function whose DOMAIN is  *)
(* its key set.  A Python float that the code only ever obtains as a       *)
(* quotient of integers is the pair <<numerator, denominator>> with a      *)
(* positive denominator, never reduced, so that two floats computed by the *)
(* same expression are the same pair.                                      *)
(***************************************************************************)
EXTENDS Integers, Sequences, FiniteSets, TLC

VARIABLES
    pc,              \* position of the modelled script run
    path_frames,     \* camera_path["frames"] as loaded by a renderer
    crossfade_half,  \* the crossfade_half argument
    map_globe,       \* crossfade_map of render_globe.py
    map_flat,        \* crossfade_map of render_flat.py
    map_test,        \* crossfade_map of test_crossfade.py
    called,          \* the copies of compute_crossfade_schedule that have returned
    \* render_globe.py, per-frame render loop
    i_globe,         \* loop index i
    tex_image_a,     \* tex_image_a.image: the geo index whose PNG it is, or NoImage
    tex_image_b,     \* tex_image_b.image
    prev_geo_a,      \* prev_geo_a
    prev_geo_b,      \* prev_geo_b
    images,          \* bpy.data.images: the geo indices whose PNG is a live datablock
    mix_factor,      \* mix_node.inputs[0].default_value
    out_globe,       \* what each bpy.ops.render.render call saw: slots and factor
    \* render_flat.py, frame creation loop
    i_flat,          \* loop index i
    image_cache,     \* keys of image_cache
    out_flat,        \* frame_NNNN.png written per frame: blend or symlink
    \* render_remaining.py
    existing,        \* numbers NNNN of the render_NNNN.png found at start
    remaining,       \* remaining
    i_rem,           \* loop index i
    tex_image,       \* tex_image.image
    prev_geo_idx,    \* prev_geo_idx
    out_rem,         \* render_NNNN.png written by this run: NNNN -> what it shows
    \* compute_camera_path.py
    total_steps,         \* total_steps = len(times)
    SUPERCONTINENT_HOLD, \* the configured holds, a list of <<time_ma, extra>>
    dispersal,           \* dispersal: raw dispersal per timestep
    dispersal_norm,      \* dispersal_norm
    smooth_dispersal,    \* smooth_dispersal
    hold_frames,         \* hold_frames: timestep index -> extra frames
    i_step,              \* loop index i of the frame expansion
    anim_frame,          \* anim_frame
    output_frames,       \* output_frames
    camera_path,         \* the exported camera_path, None until it is written
    smooth_lons,         \* smooth_lons, degrees
    smooth_lats,         \* smooth_lats, degrees
    ERA_OVERRIDES,       \* the keyframes, a list of
                         \* <<time_ma, target_lon, target_lat, label, weight>>
    \* compute_camera_path.py, centroid and dispersal extraction
    plate_model,         \* what pygplates.reconstruct yields per timestep
    raw_lons,            \* raw_lons
    raw_lats,            \* raw_lats
    land_areas,          \* land_areas
    i_cent,              \* loop index i of the centroid loop
    poly_data,           \* poly_data of the timestep in work
    total_area,          \* total_area of the timestep in work
    t_idx,               \* thresholds of CLUSTER_THRESHOLDS tried for it
    best_cluster,        \* best_cluster, << >> while it is None
    used_threshold,      \* used_threshold
    coverage,            \* coverage
    i_disp,              \* loop index i of the dispersal loop
    \* compute_camera_path.py, era overrides
    era_lons,            \* era_lons
    era_lats,            \* era_lats
    override_weights,    \* override_weights
    override_lons,       \* override_lons
    override_lats,       \* override_lats
    blended_lons,        \* blended_lons
    blended_lats,        \* blended_lats
    \* generate_frames.py
    i_gen,               \* loop index i of the main rendering loop
    frames_dir,          \* names of the files in FRAMES_DIR
    \* subtitle generation of render_globe.py and render_flat.py
    ass_events_globe,    \* subtitle section of render_globe.py: ass_events and the
                         \* variables of its grouping loop, None before it is run
    ass_events_flat      \* the same of render_flat.py

cfVars == <<path_frames, crossfade_half, map_globe, map_flat, map_test, called>>

globeVars == <<i_globe, tex_image_a, tex_image_b, prev_geo_a, prev_geo_b, images,
               mix_factor, out_globe>>

flatVars == <<i_flat, image_cache, out_flat>>

remVars == <<existing, remaining, i_rem, tex_image, prev_geo_idx, out_rem>>

camVars == <<smooth_lons, smooth_lats, ERA_OVERRIDES>>

pathVars == <<total_steps, SUPERCONTINENT_HOLD, dispersal, dispersal_norm,
              smooth_dispersal, hold_frames, i_step, anim_frame, output_frames,
              camera_path, camVars>>

extractVars == <<plate_model, raw_lons, raw_lats, land_areas, i_cent, poly_data,
                 total_area, t_idx, best_cluster, used_threshold, coverage, i_disp>>

blendVars == <<era_lons, era_lats, override_weights, override_lons, override_lats,
               blended_lons, blended_lats>>

genVars == <<i_gen, frames_dir>>

subVars == <<ass_events_globe, ass_events_flat>>

restVars == <<blendVars, genVars, subVars>>

vars == <<pc, cfVars, globeVars, flatVars, remVars, pathVars, extractVars, restVars>>

(***************************************************************************)
(* Bounds of the model.                                                    *)
(***************************************************************************)
MaxRuns == 3      \* runs of equal geo_frame_idx in an input frame list
MaxRunLen == 4    \* frames per run
MaxHalf == 3      \* crossfade_half arguments 0..MaxHalf
MaxRenderRuns == 3    \* runs in a frame list handed to the render loops
MaxRenderRunLen == 3  \* frames per run in a frame list handed to the render loops
MaxSteps == 3     \* geological timesteps of a run of compute_camera_path.py
DispGrid == 4     \* smoothed dispersal values 0/DispGrid .. DispGrid/DispGrid
MaxExtra == 2     \* extra frames of a configured hold, 1..MaxExtra
RawMax == 4       \* raw dispersal values 0..RawMax
MaxPolys == 3     \* reconstructed geometries of a timestep of a one-timestep run
MaxBlendSteps == 3    \* timesteps of a short run of the era overrides
MaxSubRuns == 3       \* runs of equal (time_ma, era_label) in a subtitled frame list
MaxSubRunLen == 3     \* frames per such run

(***************************************************************************)
(* Python built-ins used by the code.                                      *)
(***************************************************************************)
EmptyDict == [x \in {} |-> 0]

\* d[k] = v on a dict: a later assignment to the same key replaces the earlier one
DictPut(d, k, v) == [x \in (DOMAIN d) \cup {k} |-> IF x = k THEN v ELSE d[x]]

Min2(a, b) == IF a <= b THEN a ELSE b

Min3(a, b, c) == Min2(Min2(a, b), c)

(***************************************************************************)
(* Input frame lists: every list of at most MaxRuns maximal runs of at     *)
(* most MaxRunLen frames, given as <<geo_frame_idx, length>> pairs.  The   *)
(* runs carry the indices 0, 1, 2, ... that compute_camera_path.py writes, *)
(* or alternate between 0 and 1 (a hand-edited list that returns to an     *)
(* earlier timestep).                                                      *)
(***************************************************************************)
RunGeo(kind, j) == IF kind = "increasing" THEN j - 1 ELSE (j - 1) % 2

RunSpecsOf(maxRuns, maxLen) ==
    { [j \in 1..Len(lens) |-> <<RunGeo(kind, j), lens[j]>>] :
        lens \in UNION { [1..n -> 1..maxLen] : n \in 1..maxRuns },
        kind \in {"increasing", "alternating"} }

RunSpecs == RunSpecsOf(MaxRuns, MaxRunLen)

RenderRunSpecs == RunSpecsOf(MaxRenderRuns, MaxRenderRunLen)

\* the worked example of the crossfade scheduler: two runs of 10 frames
ExampleRuns == << <<0, 10>>, <<1, 10>> >>

RECURSIVE GeoList(_)
GeoList(rs) ==
    IF rs = << >> THEN << >>
    ELSE [j \in 1..rs[1][2] |-> rs[1][1]] \o GeoList(Tail(rs))

FramesOf(rs) ==
    LET geos == GeoList(rs)
    IN [j \in 1..Len(geos) |-> [anim_frame |-> j - 1, geo_frame_idx |-> geos[j]]]

(***************************************************************************)
(* compute_crossfade_schedule of render_globe.py.  A run is the tuple      *)
(* <<geo_frame_idx, run_start, run_end, length>>, a map entry the tuple    *)
(* <<geo_idx_a, geo_idx_b, alpha>>.                                        *)
(***************************************************************************)
RECURSIVE build_runs_globe(_, _, _, _, _)
build_runs_globe(pf, i, prev_geo, run_start, runs) ==
    IF i = Len(pf)
    THEN Append(runs, <<prev_geo, run_start, Len(pf), Len(pf) - run_start>>)
    ELSE IF pf[i + 1].geo_frame_idx # prev_geo
         THEN build_runs_globe(pf, i + 1, pf[i + 1].geo_frame_idx, i,
                  Append(runs, <<prev_geo, run_start, i, i - run_start>>))
         ELSE build_runs_globe(pf, i + 1, prev_geo, run_start, runs)

runs_globe(pf) == build_runs_globe(pf, 0, pf[1].geo_frame_idx, 0, << >>)

\* mutant: the incoming run's length is left out of the minimum
half_ignoring_incoming(out_run, in_run, ch) == Min2(out_run[4] \div 2, ch)

\* half = min(out_run[3] // 2, in_run[3] // 2, crossfade_half)
half_globe(out_run, in_run, ch) == Min3(out_run[4] \div 2, in_run[4] \div 2, ch)

\* mutant: the window starts at the transition instead of straddling it
anim_idx_from_transition(transition, half, k) == transition + k

\* anim_idx = transition - half + k
anim_idx_globe(transition, half, k) == transition - half + k

\* mutant: the blend runs over the closed interval, endpoints 0 and 1 included
alpha_with_endpoints(k, window) == <<k, window - 1>>

\* alpha = (k + 1) / (window + 1)
alpha_globe(k, window) == <<k + 1, window + 1>>

\* for k in range(window): crossfade_map[anim_idx] = (out_run[0], in_run[0], alpha)
RECURSIVE fill_window_globe(_, _, _, _, _, _)
fill_window_globe(cmap, out_run, in_run, half, window, k) ==
    IF k >= window THEN cmap
    ELSE LET transition == in_run[2]
             anim_idx == anim_idx_globe(transition, half, k)
             alpha == alpha_globe(k, window)
         IN fill_window_globe(
                DictPut(cmap, anim_idx, <<out_run[1], in_run[1], alpha>>),
                out_run, in_run, half, window, k + 1)

\* for ri in range(len(runs) - 1): skip the boundary when half < 1
RECURSIVE fill_map_globe(_, _, _, _)
fill_map_globe(cmap, runs, ch, ri) ==
    IF ri >= Len(runs) - 1 THEN cmap
    ELSE LET out_run == runs[ri + 1]
             in_run == runs[ri + 2]
             half == half_globe(out_run, in_run, ch)
         IN IF half < 1
            THEN fill_map_globe(cmap, runs, ch, ri + 1)
            ELSE fill_map_globe(
                     fill_window_globe(cmap, out_run, in_run, half, 2 * half, 0),
                     runs, ch, ri + 1)

compute_crossfade_schedule_globe(pf, ch) ==
    fill_map_globe(EmptyDict, runs_globe(pf), ch, 0)

(***************************************************************************)
(* compute_crossfade_schedule of render_flat.py.                           *)
(***************************************************************************)
RECURSIVE build_runs_flat(_, _, _, _, _)
build_runs_flat(pf, i, prev_geo, run_start, runs) ==
    IF i = Len(pf)
    THEN Append(runs, <<prev_geo, run_start, Len(pf), Len(pf) - run_start>>)
    ELSE IF pf[i + 1].geo_frame_idx # prev_geo
         THEN build_runs_flat(pf, i + 1, pf[i + 1].geo_frame_idx, i,
                  Append(runs, <<prev_geo, run_start, i, i - run_start>>))
         ELSE build_runs_flat(pf, i + 1, prev_geo, run_start, runs)

runs_flat(pf) == build_runs_flat(pf, 0, pf[1].geo_frame_idx, 0, << >>)

\* mutant: hypothetical halves that round the run lengths up
half_rounding_up(out_run, in_run, ch) ==
    Min3((out_run[4] + 1) \div 2, (in_run[4] + 1) \div 2, ch)

\* half = min(out_run[3] // 2, in_run[3] // 2, crossfade_half)
half_flat(out_run, in_run, ch) == Min3(out_run[4] \div 2, in_run[4] \div 2, ch)

\* anim_idx = transition - half + k
anim_idx_flat(transition, half, k) == transition - half + k

\* mutant: the copy divides by the window size
alpha_over_window(k, window) == <<k + 1, window>>

\* alpha = (k + 1) / (window + 1)
alpha_flat(k, window) == <<k + 1, window + 1>>

\* for k in range(window): crossfade_map[anim_idx] = (out_run[0], in_run[0], alpha)
RECURSIVE fill_window_flat(_, _, _, _, _, _)
fill_window_flat(cmap, out_run, in_run, half, window, k) ==
    IF k >= window THEN cmap
    ELSE LET transition == in_run[2]
             anim_idx == anim_idx_flat(transition, half, k)
             alpha == alpha_flat(k, window)
         IN fill_window_flat(
                DictPut(cmap, anim_idx, <<out_run[1], in_run[1], alpha>>),
                out_run, in_run, half, window, k + 1)

\* for ri in range(len(runs) - 1): skip the boundary when half < 1
RECURSIVE fill_map_flat(_, _, _, _)
fill_map_flat(cmap, runs, ch, ri) ==
    IF ri >= Len(runs) - 1 THEN cmap
    ELSE LET out_run == runs[ri + 1]
             in_run == runs[ri + 2]
             half == half_flat(out_run, in_run, ch)
         IN IF half < 1
            THEN fill_map_flat(cmap, runs, ch, ri + 1)
            ELSE fill_map_flat(
                     fill_window_flat(cmap, out_run, in_run, half, 2 * half, 0),
                     runs, ch, ri + 1)

compute_crossfade_schedule_flat(pf, ch) ==
    fill_map_flat(EmptyDict, runs_flat(pf), ch, 0)

(***************************************************************************)
(* compute_crossfade_schedule of test_crossfade.py.                        *)
(***************************************************************************)
RECURSIVE build_runs_test(_, _, _, _, _)
build_runs_test(pf, i, prev_geo, run_start, runs) ==
    IF i = Len(pf)
    THEN Append(runs, <<prev_geo, run_start, Len(pf), Len(pf) - run_start>>)
    ELSE IF pf[i + 1].geo_frame_idx # prev_geo
         THEN build_runs_test(pf, i + 1, pf[i + 1].geo_frame_idx, i,
                  Append(runs, <<prev_geo, run_start, i, i - run_start>>))
         ELSE build_runs_test(pf, i + 1, prev_geo, run_start, runs)

runs_test(pf) == build_runs_test(pf, 0, pf[1].geo_frame_idx, 0, << >>)

\* half = min(out_run[3] // 2, in_run[3] // 2, crossfade_half)
half_test(out_run, in_run, ch) == Min3(out_run[4] \div 2, in_run[4] \div 2, ch)

\* anim_idx = transition - half + k
anim_idx_test(transition, half, k) == transition - half + k

\* alpha = (k + 1) / (window + 1)
alpha_test(k, window) == <<k + 1, window + 1>>

\* for k in range(window): crossfade_map[anim_idx] = (out_run[0], in_run[0], alpha)
RECURSIVE fill_window_test(_, _, _, _, _, _)
fill_window_test(cmap, out_run, in_run, half, window, k) ==
    IF k >= window THEN cmap
    ELSE LET transition == in_run[2]
             anim_idx == anim_idx_test(transition, half, k)
             alpha == alpha_test(k, window)
         IN fill_window_test(
                DictPut(cmap, anim_idx, <<out_run[1], in_run[1], alpha>>),
                out_run, in_run, half, window, k + 1)

\* for ri in range(len(runs) - 1): skip the boundary when half < 1
RECURSIVE fill_map_test(_, _, _, _)
fill_map_test(cmap, runs, ch, ri) ==
    IF ri >= Len(runs) - 1 THEN cmap
    ELSE LET out_run == runs[ri + 1]
             in_run == runs[ri + 2]
             half == half_test(out_run, in_run, ch)
         IN IF half < 1
            THEN fill_map_test(cmap, runs, ch, ri + 1)
            ELSE fill_map_test(
                     fill_window_test(cmap, out_run, in_run, half, 2 * half, 0),
                     runs, ch, ri + 1)

compute_crossfade_schedule_test(pf, ch) ==
    fill_map_test(EmptyDict, runs_test(pf), ch, 0)

(***************************************************************************)
(* The render scripts before they are started.                             *)
(***************************************************************************)
NoImage == -1

RenderIdle ==
    /\ i_globe = 0
    /\ tex_image_a = NoImage
    /\ tex_image_b = NoImage
    /\ prev_geo_a = -1
    /\ prev_geo_b = -1
    /\ images = {}
    /\ mix_factor = <<0, 1>>
    /\ out_globe = << >>
    /\ i_flat = 0
    /\ image_cache = {}
    /\ out_flat = << >>
    /\ existing = {}
    /\ remaining = << >>
    /\ i_rem = 0
    /\ tex_image = NoImage
    /\ prev_geo_idx = -1
    /\ out_rem = EmptyDict

(***************************************************************************)
(* compute_camera_path.py before it is started.                            *)
(***************************************************************************)
None == [none |-> TRUE]

PathIdle ==
    /\ total_steps = 0
    /\ SUPERCONTINENT_HOLD = << >>
    /\ dispersal = << >>
    /\ dispersal_norm = << >>
    /\ smooth_dispersal = << >>
    /\ hold_frames = EmptyDict
    /\ i_step = 0
    /\ anim_frame = 0
    /\ output_frames = << >>
    /\ camera_path = None
    /\ smooth_lons = << >>
    /\ smooth_lats = << >>
    /\ ERA_OVERRIDES = << >>

\* the era overrides, generate_frames.py and the subtitles not started
RestIdle ==
    /\ era_lons = << >>
    /\ era_lats = << >>
    /\ override_weights = << >>
    /\ override_lons = << >>
    /\ override_lats = << >>
    /\ blended_lons = << >>
    /\ blended_lats = << >>
    /\ i_gen = 0
    /\ frames_dir = {}
    /\ ass_events_globe = [none |-> TRUE]
    /\ ass_events_flat = [none |-> TRUE]

\* the extraction loops of compute_camera_path.py not started
ExtractIdle ==
    /\ plate_model = << >>
    /\ raw_lons = << >>
    /\ raw_lats = << >>
    /\ land_areas = << >>
    /\ i_cent = 0
    /\ poly_data = << >>
    /\ total_area = 0
    /\ t_idx = 0
    /\ best_cluster = << >>
    /\ used_threshold = 0
    /\ coverage = <<0, 1>>
    /\ i_disp = 0

(***************************************************************************)
(* SpecCF: the three copies of compute_crossfade_schedule called, one      *)
(* after the other, on the same frame list and half-window.                *)
(***************************************************************************)
InitCF ==
    /\ pc = "schedule"
    /\ path_frames \in { FramesOf(rs) : rs \in RunSpecs \cup {ExampleRuns} }
    /\ crossfade_half \in 0..MaxHalf
    /\ map_globe = EmptyDict
    /\ map_flat = EmptyDict
    /\ map_test = EmptyDict
    /\ called = {}
    /\ RenderIdle
    /\ PathIdle
    /\ ExtractIdle
    /\ RestIdle

ScheduleGlobe ==
    /\ pc = "schedule"
    /\ "globe" \notin called
    /\ called' = called \cup {"globe"}
    /\ map_globe' = compute_crossfade_schedule_globe(path_frames, crossfade_half)
    /\ UNCHANGED <<pc, path_frames, crossfade_half, map_flat, map_test, globeVars, flatVars, remVars, pathVars, extractVars, restVars>>

ScheduleFlat ==
    /\ pc = "schedule"
    /\ "flat" \notin called
    /\ "globe" \in called
    /\ called' = called \cup {"flat"}
    /\ map_flat' = compute_crossfade_schedule_flat(path_frames, crossfade_half)
    /\ UNCHANGED <<pc, path_frames, crossfade_half, map_globe, map_test, globeVars, flatVars, remVars, pathVars, extractVars, restVars>>

ScheduleTest ==
    /\ pc = "schedule"
    /\ "test" \notin called
    /\ "flat" \in called
    /\ called' = called \cup {"test"}
    /\ map_test' = compute_crossfade_schedule_test(path_frames, crossfade_half)
    /\ UNCHANGED <<pc, path_frames, crossfade_half, map_globe, map_flat, globeVars, flatVars, remVars, pathVars, extractVars, restVars>>

NextCF == ScheduleGlobe \/ ScheduleFlat \/ ScheduleTest

SpecCF == InitCF /\ [][NextCF]_vars

(***************************************************************************)
(* render_globe.py: the dual-texture material and the per-frame loop.      *)
(* An image datablock is named by the geo index of the PNG it was loaded   *)
(* from: load(..., check_existing=True) returns the live datablock of that *)
(* file if there is one, so at most one datablock per file is live.  The   *)
(* texture state handed to the helpers is the record                       *)
(* [a, b: slot images, pa, pb: prev_geo_a/b, imgs: bpy.data.images,        *)
(*  mix: factor of the Mix node].                                          *)
(***************************************************************************)
CROSSFADE_HALF_GLOBE == 1

CROSSFADE_HALF_FLAT == 1

\* bpy.data.images.load(frame_files[g], check_existing=True)
images_load(imgs, g) == imgs \cup {g}

\* bpy.data.images.remove(x): the datablock is freed and its users are unlinked
images_remove(ts, x) ==
    [ts EXCEPT !.imgs = @ \ {x},
               !.a = IF @ = x THEN NoImage ELSE @,
               !.b = IF @ = x THEN NoImage ELSE @]

\* crossfade frame: "Load texture A (outgoing) if changed"
crossfade_load_a(ts, geo_a) ==
    IF geo_a # ts.pa
    THEN LET old_a == ts.a
             new_a == geo_a
             s1 == [ts EXCEPT !.imgs = images_load(@, geo_a), !.a = new_a]
             s2 == IF old_a # NoImage /\ old_a # new_a /\ old_a # s1.b
                   THEN images_remove(s1, old_a)
                   ELSE s1
         IN [s2 EXCEPT !.pa = geo_a]
    ELSE ts

\* crossfade frame: "Load texture B (incoming) if changed"
crossfade_load_b(ts, geo_b) ==
    IF geo_b # ts.pb
    THEN LET old_b == ts.b
             new_b == geo_b
             s1 == [ts EXCEPT !.imgs = images_load(@, geo_b), !.b = new_b]
             s2 == IF old_b # NoImage /\ old_b # new_b /\ old_b # s1.a
                   THEN images_remove(s1, old_b)
                   ELSE s1
         IN [s2 EXCEPT !.pb = geo_b]
    ELSE ts

\* mutant: hypothetical removal that does not look at slot B
normal_load_a_unguarded(ts, geo_idx) ==
    IF geo_idx # ts.pa
    THEN LET old_a == ts.a
             new_a == geo_idx
             s1 == [ts EXCEPT !.imgs = images_load(@, geo_idx), !.a = new_a]
             s2 == IF old_a # NoImage /\ old_a # new_a
                   THEN images_remove(s1, old_a)
                   ELSE s1
         IN [s2 EXCEPT !.pa = geo_idx]
    ELSE ts

\* normal frame: load texture A if changed
normal_load_a(ts, geo_idx) ==
    IF geo_idx # ts.pa
    THEN LET old_a == ts.a
             new_a == geo_idx
             s1 == [ts EXCEPT !.imgs = images_load(@, geo_idx), !.a = new_a]
             s2 == IF old_a # NoImage /\ old_a # new_a /\ old_a # s1.b
                   THEN images_remove(s1, old_a)
                   ELSE s1
         IN [s2 EXCEPT !.pa = geo_idx]
    ELSE ts

\* the branch "if i in crossfade_map"
crossfade_frame(ts, entry) ==
    [crossfade_load_b(crossfade_load_a(ts, entry[1]), entry[2]) EXCEPT !.mix = entry[3]]

\* mutant: the normal branch leaves the Mix factor of the last crossfade frame
normal_frame_keeps_mix(ts, geo_idx) == normal_load_a(ts, geo_idx)

\* the branch "else": single texture, factor 0.0
normal_frame(ts, geo_idx) == [normal_load_a(ts, geo_idx) EXCEPT !.mix = <<0, 1>>]

globe_frame(ts, cmap, i, pf) ==
    IF i \in DOMAIN cmap
    THEN crossfade_frame(ts, cmap[i])
    ELSE normal_frame(ts, pf.geo_frame_idx)

GlobeFrame ==
    /\ pc = "globe"
    /\ i_globe < Len(path_frames)
    /\ LET pf == path_frames[i_globe + 1]
           ts == globe_frame([a |-> tex_image_a, b |-> tex_image_b,
                              pa |-> prev_geo_a, pb |-> prev_geo_b,
                              imgs |-> images, mix |-> mix_factor],
                             map_globe, i_globe, pf)
       IN /\ tex_image_a' = ts.a
          /\ tex_image_b' = ts.b
          /\ prev_geo_a' = ts.pa
          /\ prev_geo_b' = ts.pb
          /\ images' = ts.imgs
          /\ mix_factor' = ts.mix
          /\ out_globe' = Append(out_globe,
                 [anim_f |-> pf.anim_frame + 1, a |-> ts.a, b |-> ts.b,
                  mix |-> ts.mix, imgs |-> ts.imgs])
    /\ i_globe' = i_globe + 1
    /\ pc' = IF i_globe + 1 = Len(path_frames) THEN "flat" ELSE "globe"
    /\ UNCHANGED <<cfVars, flatVars, remVars, pathVars, extractVars, restVars>>

(***************************************************************************)
(* render_flat.py: the frame creation loop.  A written frame is the tuple  *)
(* <<geo_a, geo_b, alpha>> of Image.blend, or <<g, g, 0>> for a symlink to *)
(* globe_frame_g.                                                          *)
(***************************************************************************)
Pure(g) == <<g, g, <<0, 1>>>>

flat_frame(cmap, i, pf) ==
    IF i \in DOMAIN cmap
    THEN <<cmap[i][1], cmap[i][2], cmap[i][3]>>
    ELSE Pure(pf.geo_frame_idx)

\* load the pair into the cache, then evict every other entry
flat_cache(cache, cmap, i) ==
    IF i \in DOMAIN cmap
    THEN { c \in cache \cup {cmap[i][1], cmap[i][2]} : c = cmap[i][1] \/ c = cmap[i][2] }
    ELSE cache

FlatFrame ==
    /\ pc = "flat"
    /\ i_flat < Len(path_frames)
    /\ image_cache' = flat_cache(image_cache, map_flat, i_flat)
    /\ out_flat' = Append(out_flat, flat_frame(map_flat, i_flat, path_frames[i_flat + 1]))
    /\ i_flat' = i_flat + 1
    /\ pc' = IF i_flat + 1 = Len(path_frames) THEN "scan" ELSE "flat"
    /\ UNCHANGED <<cfVars, globeVars, remVars, pathVars, extractVars, restVars>>

(***************************************************************************)
(* render_remaining.py: the scan of the render directory and the loop over *)
(* the frames found missing.  The directory holds the output of an         *)
(* interrupted render_globe.py run: a prefix of the frames, of which at    *)
(* most one was deleted afterwards.                                        *)
(***************************************************************************)
ExistingSets(n) ==
    { (1..k) \ d : k \in 0..n, d \in {{}} \cup { {x} : x \in 1..n } }

\* mutant: hypothetical resume from the highest numbered output onwards
remaining_after_last(pfs, ex) ==
    SelectSeq(pfs, LAMBDA pf : \A n \in ex : n < pf.anim_frame + 1)

\* remaining = [pf for pf in path_frames if (pf["anim_frame"] + 1) not in existing]
remaining_of(pfs, ex) == SelectSeq(pfs, LAMBDA pf : (pf.anim_frame + 1) \notin ex)

RemainingScan ==
    /\ pc = "scan"
    /\ \E ex \in ExistingSets(Len(path_frames)) :
        /\ existing' = ex
        /\ remaining' = remaining_of(path_frames, ex)
        /\ IF Len(remaining_of(path_frames, ex)) = 0
           THEN /\ pc' = "done"
                /\ tex_image' = tex_image
           ELSE /\ pc' = "remaining"
                /\ tex_image' = 0
    /\ UNCHANGED <<cfVars, globeVars, flatVars, i_rem, prev_geo_idx, out_rem, pathVars, extractVars, restVars>>

RemainingFrame ==
    /\ pc = "remaining"
    /\ i_rem < Len(remaining)
    /\ LET pf == remaining[i_rem + 1]
           shown == IF pf.geo_frame_idx # prev_geo_idx THEN pf.geo_frame_idx ELSE tex_image
       IN /\ tex_image' = shown
          /\ prev_geo_idx' = pf.geo_frame_idx
          /\ out_rem' = DictPut(out_rem, pf.anim_frame + 1, Pure(shown))
    /\ i_rem' = i_rem + 1
    /\ pc' = IF i_rem + 1 = Len(remaining) THEN "done" ELSE "remaining"
    /\ UNCHANGED <<cfVars, globeVars, flatVars, existing, remaining, pathVars, extractVars, restVars>>

(***************************************************************************)
(* SpecRender: render_globe.py, render_flat.py and render_remaining.py run *)
(* one after the other on the same camera path.                            *)
(***************************************************************************)
InitRender ==
    /\ pc = "globe"
    /\ path_frames \in { FramesOf(rs) : rs \in RenderRunSpecs }
    /\ crossfade_half = CROSSFADE_HALF_GLOBE
    /\ map_globe = compute_crossfade_schedule_globe(path_frames, CROSSFADE_HALF_GLOBE)
    /\ map_flat = compute_crossfade_schedule_flat(path_frames, CROSSFADE_HALF_FLAT)
    /\ map_test = EmptyDict
    /\ called = {"globe", "flat"}
    /\ i_globe = 0
    /\ tex_image_a = 0
    /\ tex_image_b = 0
    /\ prev_geo_a = -1
    /\ prev_geo_b = -1
    /\ images = {0}
    /\ mix_factor = <<0, 1>>
    /\ out_globe = << >>
    /\ i_flat = 0
    /\ image_cache = {}
    /\ out_flat = << >>
    /\ existing = {}
    /\ remaining = << >>
    /\ i_rem = 0
    /\ tex_image = NoImage
    /\ prev_geo_idx = -1
    /\ out_rem = EmptyDict
    /\ PathIdle
    /\ ExtractIdle
    /\ RestIdle

NextRender == GlobeFrame \/ FlatFrame \/ RemainingScan \/ RemainingFrame

SpecRender == InitRender /\ [][NextRender]_vars

(***************************************************************************)
(* compute_camera_path.py: dispersal normalisation, variable pacing, frame *)
(* expansion and export.  The script is run on a shortened time range of   *)
(* total_steps timesteps that ends at TIME_END.  Raw dispersal values are  *)
(* integers (multiples of a unit of dispersal); normalised and smoothed    *)
(* values are <<numerator, denominator>> pairs.                            *)
(***************************************************************************)
TIME_END == 0

TIME_STEP == 1

TIME_START == TIME_END + (total_steps - 1) * TIME_STEP

\* times[i] of times = np.arange(TIME_START, TIME_END - 1, -TIME_STEP)
times(i) == TIME_START - i * TIME_STEP

SMOOTH_SIGMA == 60

MIN_SPEED == 1

MAX_SPEED == 3

Max2(a, b) == IF a >= b THEN a ELSE b

\* int(a / b) for b > 0: truncation towards zero
int_div(a, b) == IF a >= 0 THEN a \div b ELSE -((-a) \div b)

SeqMin(xs) == CHOOSE m \in { xs[j] : j \in 1..Len(xs) } : \A j \in 1..Len(xs) : m <= xs[j]

SeqMax(xs) == CHOOSE m \in { xs[j] : j \in 1..Len(xs) } : \A j \in 1..Len(xs) : m >= xs[j]

\* hypothetical normalisation that scales by the maximum only
normalize_by_max(disp) ==
    LET d_max == SeqMax(disp)
    IN IF d_max > 0
       THEN [j \in 1..Len(disp) |-> <<disp[j], d_max>>]
       ELSE [j \in 1..Len(disp) |-> <<0, 1>>]

\* dispersal_norm of the raw dispersal disp
normalize(disp) ==
    LET d_min == SeqMin(disp)
        d_max == SeqMax(disp)
    IN IF d_max > d_min
       THEN [j \in 1..Len(disp) |-> <<disp[j] - d_min, d_max - d_min>>]
       ELSE [j \in 1..Len(disp) |-> <<0, 1>>]

(***************************************************************************)
(* scipy.ndimage.gaussian_filter1d(x, sigma) with its defaults order = 0,  *)
(* mode = 'reflect', truncate = 4.0: the kernel exp(-k^2 / (2 sigma^2)),   *)
(* k = -KernelRadius..KernelRadius, divided by its sum, correlated with x  *)
(* extended by reflection about its edges (c b a | a b c | c b a).         *)
(* GaussWeights[k + 1] is the weight of offset k for sigma = SMOOTH_SIGMA, *)
(* in units of 10^-5 and rounded to the nearest unit.                      *)
(***************************************************************************)
KernelRadius == 4 * SMOOTH_SIGMA

GaussWeights ==
    << 100000, 99986, 99944, 99875, 99778, 99653, 99501, 99322, 99115, 98881,
       98621, 98333, 98020, 97680, 97314, 96923, 96507, 96066, 95600, 95110,
       94596, 94059, 93499, 92916, 92312, 91686, 91038, 90371, 89683, 88976,
       88250, 87505, 86743, 85963, 85167, 84355, 83527, 82684, 81828, 80957,
       80074, 79178, 78270, 77352, 76423, 75484, 74536, 73579, 72615, 71643,
       70665, 69680, 68691, 67696, 66698, 65696, 64691, 63683, 62674, 61664,
       60653, 59642, 58632, 57623, 56615, 55610, 54607, 53608, 52612, 51621,
       50634, 49652, 48675, 47705, 46741, 45783, 44833, 43891, 42956, 42029,
       41111, 40202, 39302, 38412, 37531, 36660, 35800, 34950, 34111, 33282,
       32465, 31659, 30865, 30082, 29311, 28551, 27804, 27068, 26345, 25634,
       24935, 24249, 23575, 22913, 22263, 21627, 21002, 20390, 19790, 19202,
       18627, 18064, 17513, 16974, 16447, 15933, 15430, 14938, 14458, 13990,
       13534, 13088, 12654, 12230, 11818, 11416, 11025, 10644, 10274, 9914,
       9563, 9223, 8892, 8571, 8259, 7956, 7662, 7377, 7101, 6833,
       6573, 6321, 6078, 5842, 5613, 5393, 5179, 4972, 4773, 4580,
       4394, 4214, 4040, 3873, 3711, 3555, 3405, 3260, 3120, 2986,
       2857, 2732, 2612, 2497, 2386, 2279, 2177, 2079, 1984, 1893,
       1806, 1723, 1643, 1566, 1492, 1421, 1354, 1289, 1227, 1168,
       1111, 1057, 1005, 955, 908, 862, 819, 778, 738, 700,
       665, 630, 598, 566, 537, 509, 482, 456, 432, 409,
       387, 366, 346, 327, 309, 292, 276, 260, 246, 232,
       219, 206, 195, 183, 173, 163, 153, 144, 136, 128,
       120, 113, 106, 100, 94, 88, 83, 78, 73, 69,
       64, 60, 57, 53, 50, 47, 44, 41, 38, 36,
       34 >>

\* the sum of the kernel over the offsets -hi..-lo and lo..hi, summed by halves
RECURSIVE SumWeights(_, _)
SumWeights(lo, hi) ==
    IF lo = hi THEN (IF lo = 0 THEN 1 ELSE 2) * GaussWeights[lo + 1]
    ELSE LET mid == (lo + hi) \div 2
         IN SumWeights(lo, mid) + SumWeights(mid + 1, hi)

\* the index of x that the 0-based position j of the extended signal reads
reflect(j, n) ==
    LET m == j % (2 * n)
    IN IF m < n THEN m ELSE 2 * n - 1 - m

\* the kernel applied at position i over the offsets -hi..-lo and lo..hi
RECURSIVE correlate1d(_, _, _, _)
correlate1d(nums, i, lo, hi) ==
    IF lo = hi
    THEN LET n == Len(nums)
         IN GaussWeights[lo + 1] *
              (IF lo = 0 THEN nums[i + 1]
               ELSE nums[reflect(i - lo, n) + 1] + nums[reflect(i + lo, n) + 1])
    ELSE LET mid == (lo + hi) \div 2
         IN correlate1d(nums, i, lo, mid) + correlate1d(nums, i, mid + 1, hi)

\* hypothetical pacing that skips the smoothing of the dispersal metric
unsmoothed_dispersal(xs) == xs

\* xs: floats over one common denominator
gaussian_filter1d(xs) ==
    LET nums == [j \in 1..Len(xs) |-> xs[j][1]]
        total == SumWeights(0, KernelRadius)
    IN [j \in 1..Len(xs) |-> <<correlate1d(nums, j - 1, 0, KernelRadius), total * xs[j][2]>>]

\* frame_duration[i] for smooth_dispersal[i] = d
frame_duration(d) ==
    <<MIN_SPEED * d[2] + (MAX_SPEED - MIN_SPEED) * (d[2] - d[1]), d[2]>>

\* hypothetical rounding of a tie away from zero
round_half_up(r) == (2 * r[1] + r[2]) \div (2 * r[2])

\* Python round() of a non-negative float: to the nearest integer, a tie to
\* the even one
py_round(r) ==
    LET f == r[1] \div r[2]
        rest == r[1] % r[2]
    IN IF 2 * rest < r[2] THEN f
       ELSE IF 2 * rest > r[2] THEN f + 1
       ELSE IF f % 2 = 0 THEN f ELSE f + 1

n_frames(d) == Max2(1, py_round(frame_duration(d)))

\* the timestep index of a configured hold time
hold_idx(sc_time) ==
    Max2(0, Min2(int_div(TIME_START - sc_time, TIME_STEP), total_steps - 1))

RECURSIVE build_hold_frames(_, _)
build_hold_frames(holds, hf) ==
    IF holds = << >> THEN hf
    ELSE build_hold_frames(Tail(holds), DictPut(hf, hold_idx(holds[1][1]), holds[1][2]))

\* hypothetical label look-up that passes over a keyframe at the very time
RECURSIVE era_loop_strict(_, _, _)
era_loop_strict(best, j, time_ma) ==
    IF j > Len(ERA_OVERRIDES) THEN best
    ELSE era_loop_strict(IF ERA_OVERRIDES[j][1] > time_ma THEN ERA_OVERRIDES[j] ELSE best,
                         j + 1, time_ma)

get_era_label_strict(time_ma) == era_loop_strict(ERA_OVERRIDES[1], 1, time_ma)[4]

\* for e in ERA_OVERRIDES: if e[0] >= time_ma: best = e
RECURSIVE era_loop(_, _, _)
era_loop(best, j, time_ma) ==
    IF j > Len(ERA_OVERRIDES) THEN best
    ELSE era_loop(IF ERA_OVERRIDES[j][1] >= time_ma THEN ERA_OVERRIDES[j] ELSE best,
                  j + 1, time_ma)

get_era_label(time_ma) == era_loop(ERA_OVERRIDES[1], 1, time_ma)[4]

\* hypothetical fraction (sub + 1) / n_frames
sub_fraction_from_one(sub, n) == <<sub + 1, n>>

\* t = sub / n_frames if n_frames > 1 else 0
sub_fraction(sub, n) == IF n > 1 THEN <<sub, n>> ELSE <<0, 1>>

\* a * (1 - t) + b * t
interp(a, b, t) == <<a * (t[2] - t[1]) + b * t[1], t[2]>>

\* the dict appended for timestep i under the number af
frame_record(af, i, lon, lat) ==
    [anim_frame |-> af,
     time_ma |-> times(i),
     geo_frame_idx |-> i,
     camera_lon |-> lon,
     camera_lat |-> lat,
     dispersal |-> smooth_dispersal[i + 1],
     era_label |-> get_era_label(times(i))]

\* the dict of sub-frame sub of the n regular frames of timestep i
base_frame(af, i, sub, n) ==
    LET t == sub_fraction(sub, n)
    IN IF i < total_steps - 1
       THEN frame_record(af, i,
                         interp(smooth_lons[i + 1], smooth_lons[i + 2], t),
                         interp(smooth_lats[i + 1], smooth_lats[i + 2], t))
       ELSE frame_record(af, i, <<smooth_lons[i + 1], 1>>, <<smooth_lats[i + 1], 1>>)

\* hypothetical hold frame that moves on half-way to the next timestep
hold_frame_moving(af, i) ==
    IF i < total_steps - 1
    THEN frame_record(af, i, <<smooth_lons[i + 1] + smooth_lons[i + 2], 2>>,
                             <<smooth_lats[i + 1] + smooth_lats[i + 2], 2>>)
    ELSE frame_record(af, i, <<smooth_lons[i + 1], 1>>, <<smooth_lats[i + 1], 1>>)

\* the dict of a hold frame of timestep i
hold_frame(af, i) ==
    frame_record(af, i, <<smooth_lons[i + 1], 1>>, <<smooth_lats[i + 1], 1>>)

\* for sub in range(first, n): append, anim_frame += 1;
\* the result is <<output_frames, anim_frame>>
RECURSIVE base_loop(_, _, _, _, _)
base_loop(frames, af, i, sub, n) ==
    IF sub >= n THEN <<frames, af>>
    ELSE base_loop(Append(frames, base_frame(af, i, sub, n)), af + 1, i, sub + 1, n)

\* hypothetical loop for sub in range(1, n_frames)
expand_base_from_one(frames, af, i, n) == base_loop(frames, af, i, 1, n)

expand_base(frames, af, i, n) == base_loop(frames, af, i, 0, n)

RECURSIVE hold_loop(_, _, _, _, _)
hold_loop(frames, af, i, h, extra) ==
    IF h >= extra THEN <<frames, af>>
    ELSE hold_loop(Append(frames, hold_frame(af, i)), af + 1, i, h + 1, extra)

\* hypothetical hold that repeats the number of the last regular frame
expand_hold_same_number(frames, af, i, extra) ==
    <<frames \o [h \in 1..extra |-> hold_frame(af - 1, i)], af>>

expand_hold(frames, af, i, extra) == hold_loop(frames, af, i, 0, extra)

\* the body of "for i in range(total_steps)" for one i
expand_timestep(frames, af, i) ==
    LET base == expand_base(frames, af, i, n_frames(smooth_dispersal[i + 1]))
    IN IF i \in DOMAIN hold_frames
       THEN expand_hold(base[1], base[2], i, hold_frames[i])
       ELSE base

(***************************************************************************)
(* Inputs.  Configured holds: none, or one hold at a time inside the time  *)
(* range or one step outside it on either side.                            *)
(***************************************************************************)
HoldLists(n) ==
    { << >> } \cup
    { << <<t, e>> >> : t \in (TIME_END - TIME_STEP)..(TIME_END + n * TIME_STEP),
                       e \in 1..MaxExtra }

\* for the whole pipeline: no hold, or one hold at either end of the time range
EndHoldLists ==
    { << >> } \cup
    { << <<t, e>> >> : t \in {TIME_START, TIME_END}, e \in 1..MaxExtra }

DispersalGrid == { <<q, DispGrid>> : q \in 0..DispGrid }

\* two configured holds: one at either end of the time range, or two that
\* fall on the last timestep, the second from outside the range
TwoHoldLists ==
    { << <<TIME_START, e>>, <<TIME_END, e>> >> : e \in 1..MaxExtra } \cup
    { << <<TIME_END, e>>, <<TIME_END - TIME_STEP, 1>> >> : e \in 1..MaxExtra }

\* smoothed dispersal that paces a timestep at 3, 2 or 1 frames
CoarseDispersal == { <<0, 1>>, <<1, 2>>, <<1, 1>> }

\* smoothed camera tracks: one that drifts east and south, one that swings
\* across the date line at a fixed latitude
CameraLon(kind, i) ==
    IF kind = "drift" THEN 30 * i - 40
    ELSE IF i % 2 = 0 THEN 170 ELSE -170

CameraLat(kind, i) == IF kind = "drift" THEN 20 - 15 * i ELSE 10

CameraKinds == {"drift", "swing"}

\* keyframe lists <<time_ma, target_lon, target_lat, label, weight>>:
\* "every": a keyframe at every time of the range, in descending time;
\* "ends": one at the start and one at the end of the range;
\* "ascending": the same two authored end first;
\* "late": a single keyframe at the end of the range
EraLabel(t) == <<"era at", t>>

EraKeyframe(t) == <<t, 0, 10, EraLabel(t), <<1, 2>> >>

EraList(kind) ==
    IF kind = "every" THEN [j \in 1..total_steps |-> EraKeyframe(times(j - 1))]
    ELSE IF kind = "ends" THEN <<EraKeyframe(TIME_START), EraKeyframe(TIME_END)>>
    ELSE IF kind = "ascending" THEN <<EraKeyframe(TIME_END), EraKeyframe(TIME_START)>>
    ELSE <<EraKeyframe(TIME_END)>>

EraKinds == {"every", "ends", "ascending", "late"}

\* the camera track and keyframes of the runs that vary the pacing only
DefaultCamera ==
    /\ smooth_lons = [j \in 1..total_steps |-> CameraLon("drift", j - 1)]
    /\ smooth_lats = [j \in 1..total_steps |-> CameraLat("drift", j - 1)]
    /\ ERA_OVERRIDES = EraList("every")

CFIdle ==
    /\ path_frames = << >>
    /\ crossfade_half = 0
    /\ map_globe = EmptyDict
    /\ map_flat = EmptyDict
    /\ map_test = EmptyDict
    /\ called = {}

Normalise ==
    /\ pc = "normalise"
    /\ dispersal_norm' = normalize(dispersal)
    /\ pc' = "pacing"
    /\ UNCHANGED <<cfVars, globeVars, flatVars, remVars, total_steps,
                   SUPERCONTINENT_HOLD, dispersal, smooth_dispersal, hold_frames,
                   i_step, anim_frame, output_frames, camera_path, camVars, extractVars, restVars>>

Pacing ==
    /\ pc = "pacing"
    /\ smooth_dispersal' = gaussian_filter1d(dispersal_norm)
    /\ hold_frames' = build_hold_frames(SUPERCONTINENT_HOLD, EmptyDict)
    /\ pc' = "expand"
    /\ UNCHANGED <<cfVars, globeVars, flatVars, remVars, total_steps,
                   SUPERCONTINENT_HOLD, dispersal, dispersal_norm,
                   i_step, anim_frame, output_frames, camera_path, camVars, extractVars, restVars>>

ExpandTimestep ==
    /\ pc = "expand"
    /\ i_step < total_steps
    /\ LET r == expand_timestep(output_frames, anim_frame, i_step)
       IN /\ output_frames' = r[1]
          /\ anim_frame' = r[2]
    /\ i_step' = i_step + 1
    /\ pc' = IF i_step + 1 = total_steps THEN "export" ELSE "expand"
    /\ UNCHANGED <<cfVars, globeVars, flatVars, remVars, total_steps,
                   SUPERCONTINENT_HOLD, dispersal, dispersal_norm,
                   smooth_dispersal, hold_frames, camera_path, camVars, extractVars, restVars>>

Export ==
    /\ pc = "export"
    /\ camera_path' =
         [metadata |-> [time_step |-> TIME_STEP,
                        geological_timesteps |-> total_steps,
                        animation_frames |-> Len(output_frames),
                        smooth_sigma |-> SMOOTH_SIGMA],
          frames |-> output_frames]
    /\ pc' = "exported"
    /\ UNCHANGED <<cfVars, globeVars, flatVars, remVars, total_steps,
                   SUPERCONTINENT_HOLD, dispersal, dispersal_norm,
                   smooth_dispersal, hold_frames, i_step, anim_frame,
                   output_frames, camVars, extractVars, restVars>>

(***************************************************************************)
(* SpecExpand: the frame expansion and the export, started after the       *)
(* pacing set-up on any smoothed dispersal of the grid.                    *)
(***************************************************************************)
InitExpand ==
    /\ pc = "expand"
    /\ CFIdle
    /\ RenderIdle
    /\ total_steps \in 1..MaxSteps
    /\ SUPERCONTINENT_HOLD \in HoldLists(total_steps)
    /\ dispersal = << >>
    /\ dispersal_norm = << >>
    /\ smooth_dispersal \in [1..total_steps -> DispersalGrid]
    /\ hold_frames = build_hold_frames(SUPERCONTINENT_HOLD, EmptyDict)
    /\ i_step = 0
    /\ anim_frame = 0
    /\ output_frames = << >>
    /\ camera_path = None
    /\ DefaultCamera
    /\ ExtractIdle
    /\ RestIdle

NextExpand == ExpandTimestep \/ Export

SpecExpand == InitExpand /\ [][NextExpand]_vars

(***************************************************************************)
(* SpecCamera: the frame expansion and the export on every camera track,   *)
(* keyframe list and hold configuration of the model, the pacing coarse.   *)
(***************************************************************************)
InitCamera ==
    /\ pc = "expand"
    /\ CFIdle
    /\ RenderIdle
    /\ total_steps \in 1..MaxSteps
    /\ SUPERCONTINENT_HOLD \in HoldLists(total_steps) \cup TwoHoldLists
    /\ dispersal = << >>
    /\ dispersal_norm = << >>
    /\ smooth_dispersal \in [1..total_steps -> CoarseDispersal]
    /\ hold_frames = build_hold_frames(SUPERCONTINENT_HOLD, EmptyDict)
    /\ i_step = 0
    /\ anim_frame = 0
    /\ output_frames = << >>
    /\ camera_path = None
    /\ \E kind \in CameraKinds :
          /\ smooth_lons = [j \in 1..total_steps |-> CameraLon(kind, j - 1)]
          /\ smooth_lats = [j \in 1..total_steps |-> CameraLat(kind, j - 1)]
    /\ ERA_OVERRIDES \in { EraList(kind) : kind \in EraKinds }
    /\ ExtractIdle
    /\ RestIdle

NextCamera == ExpandTimestep \/ Export

SpecCamera == InitCamera /\ [][NextCamera]_vars

(***************************************************************************)
(* SpecPacing: the pipeline from the raw dispersal metric to the export.   *)
(***************************************************************************)
InitPacing ==
    /\ pc = "normalise"
    /\ CFIdle
    /\ RenderIdle
    /\ total_steps \in 1..MaxSteps
    /\ SUPERCONTINENT_HOLD \in EndHoldLists
    /\ dispersal \in [1..total_steps -> 0..RawMax]
    /\ dispersal_norm = << >>
    /\ smooth_dispersal = << >>
    /\ hold_frames = EmptyDict
    /\ i_step = 0
    /\ anim_frame = 0
    /\ output_frames = << >>
    /\ camera_path = None
    /\ DefaultCamera
    /\ ExtractIdle
    /\ RestIdle

NextPacing == Normalise \/ Pacing \/ ExpandTimestep \/ Export

SpecPacing == InitPacing /\ [][NextPacing]_vars

(***************************************************************************)
(* compute_camera_path.py: the centroid loop and the dispersal loop.       *)
(*                                                                         *)
(* plate_model[i + 1] is what the plate model yields at times[i]:          *)
(* fails says whether pygplates.reconstruct raises ("first": in the        *)
(* centroid loop, "second": only in the dispersal loop, "no": never), and  *)
(* geoms is the list it fills.  A reconstructed geometry has a geometry or *)
(* none, an area (or get_area raises), points or none.  Areas are integers *)
(* in units of 0.0001.  The polygons lie on the equator at whole degrees   *)
(* of longitude, where haversine_deg is the difference of longitudes.  The *)
(* direction of a weighted mean vector has no closed form in the integers: *)
(* a centroid coordinate is kept as the term "centroid of these polygons", *)
(* and the angular distance of a polygon to the centroid of its timestep   *)
(* is carried by the polygon (dist, in whole units of angle).              *)
(***************************************************************************)
TINY_AREA == 10

CLUSTER_THRESHOLDS == <<12, 18, 25>>

MIN_CLUSTER_COVERAGE == <<1, 2>>

\* the float 0.0 as a centroid coordinate
Zero == [value |-> "0.0"]

\* np.degrees(np.arctan2(...)) of the area-weighted mean vector of a cluster
centroid_coord(axis, pd, cluster) ==
    [value |-> axis,
     cluster |-> [k \in 1..Len(cluster) |->
                    <<pd[cluster[k] + 1].lat, pd[cluster[k] + 1].lon,
                      pd[cluster[k] + 1].area>>]]

\* for two points of latitude 0
haversine_deg(lat1, lon1, lat2, lon2) ==
    LET d == IF lon2 >= lon1 THEN lon2 - lon1 ELSE lon1 - lon2
    IN IF d <= 180 THEN d ELSE 360 - d

\* returns <<parent, root>>: the walk halves the path it follows
RECURSIVE find_root(_, _)
find_root(parent, i) ==
    IF parent[i + 1] = i THEN <<parent, i>>
    ELSE LET halved == [parent EXCEPT ![i + 1] = parent[parent[i + 1] + 1]]
         IN find_root(halved, halved[i + 1])

\* returns <<parent, rank>>
union(parent, rank, a, b) ==
    LET fa == find_root(parent, a)
        fb == find_root(fa[1], b)
        ra0 == fa[2]
        rb0 == fb[2]
        swap == rank[ra0 + 1] < rank[rb0 + 1]
        ra == IF swap THEN rb0 ELSE ra0
        rb == IF swap THEN ra0 ELSE rb0
    IN IF ra0 = rb0 THEN <<fb[1], rank>>
       ELSE << [fb[1] EXCEPT ![rb + 1] = ra],
               IF rank[ra + 1] = rank[rb + 1]
               THEN [rank EXCEPT ![ra + 1] = @ + 1] ELSE rank >>

\* area = geom.get_area(), 0.001 if that raises or the area is <= 0
centroid_area(rg) ==
    LET area == IF rg.area_raises THEN TINY_AREA ELSE rg.area
    IN IF area <= 0 THEN TINY_AREA ELSE area

\* for rg in reconstructed, centroid loop: returns <<poly_data, total_area>>
RECURSIVE poly_loop(_, _, _)
poly_loop(rgs, pd, total) ==
    IF rgs = << >> THEN <<pd, total>>
    ELSE LET rg == Head(rgs)
         IN IF ~rg.has_geom THEN poly_loop(Tail(rgs), pd, total)
            ELSE IF ~rg.has_points THEN poly_loop(Tail(rgs), pd, total)
            ELSE poly_loop(Tail(rgs),
                           Append(pd, [lat |-> rg.lat, lon |-> rg.lon,
                                       area |-> centroid_area(rg)]),
                           total + centroid_area(rg))

\* the keys of pairwise_dist in the order in which they are inserted
pair_keys(n) ==
    LET P == { q \in (0..(n - 1)) \X (0..(n - 1)) : q[1] < q[2] }
        Before(q) == { r \in P : r[1] * n + r[2] < q[1] * n + q[2] }
    IN [k \in 1..Cardinality(P) |-> CHOOSE q \in P : Cardinality(Before(q)) = k - 1]

pairwise_dist(pd, q) ==
    haversine_deg(pd[q[1] + 1].lat, pd[q[1] + 1].lon, pd[q[2] + 1].lat, pd[q[2] + 1].lon)

\* hypothetical test with the comparison turned round
joined_beyond(dist, threshold) == dist > threshold

\* hypothetical test that also joins a pair lying exactly at the threshold
joined_inclusive(dist, threshold) == dist <= threshold

joined(dist, threshold) == dist < threshold

\* for (a_idx, b_idx), dist in pairwise_dist.items(): returns <<parent, rank>>
RECURSIVE union_loop(_, _, _, _, _)
union_loop(parent, rank, keys, pd, threshold) ==
    IF keys = << >> THEN <<parent, rank>>
    ELSE LET q == Head(keys)
             u == IF joined(pairwise_dist(pd, q), threshold)
                  THEN union(parent, rank, q[1], q[2])
                  ELSE <<parent, rank>>
         IN union_loop(u[1], u[2], Tail(keys), pd, threshold)

\* for idx in range(n): clusters[find_root(parent, idx)].append(idx);
\* returns the list of <<root, members>> in the order of clusters.values()
RECURSIVE clusters_loop(_, _, _, _)
clusters_loop(parent, idx, n, clusters) ==
    IF idx >= n THEN clusters
    ELSE LET fr == find_root(parent, idx)
             at == { k \in 1..Len(clusters) : clusters[k][1] = fr[2] }
         IN clusters_loop(fr[1], idx + 1, n,
               IF at = {} THEN Append(clusters, <<fr[2], <<idx>> >>)
               ELSE [k \in 1..Len(clusters) |->
                       IF k \in at THEN <<clusters[k][1], Append(clusters[k][2], idx)>>
                       ELSE clusters[k]])

RECURSIVE area_sum(_, _)
area_sum(pd, idxs) ==
    IF idxs = << >> THEN 0
    ELSE pd[Head(idxs) + 1].area + area_sum(pd, Tail(idxs))

\* max(clusters.values(), key = area): the first of the largest
RECURSIVE max_cluster(_, _, _, _)
max_cluster(clusters, k, best, pd) ==
    IF k > Len(clusters) THEN best
    ELSE max_cluster(clusters, k + 1,
                     IF area_sum(pd, clusters[k][2]) > area_sum(pd, best)
                     THEN clusters[k][2] ELSE best,
                     pd)

coverage_of(candidate_area, total) ==
    IF total > 0 THEN <<candidate_area, total>> ELSE <<0, 1>>

\* one pass of "for threshold in CLUSTER_THRESHOLDS" up to the break test
cluster_at(pd, total, threshold) ==
    LET n == Len(pd)
        u == union_loop([k \in 1..n |-> k - 1], [k \in 1..n |-> 0],
                        pair_keys(n), pd, threshold)
        clusters == clusters_loop(u[1], 0, n, << >>)
        candidate == max_cluster(clusters, 2, clusters[1][2], pd)
        candidate_area == area_sum(pd, candidate)
    IN [candidate |-> candidate,
        candidate_area |-> candidate_area,
        coverage |-> coverage_of(candidate_area, total)]

\* hypothetical break test that never stops the escalation early
good_coverage_never(cov) == FALSE

\* coverage >= MIN_CLUSTER_COVERAGE
good_coverage(cov) ==
    cov[1] * MIN_CLUSTER_COVERAGE[2] >= MIN_CLUSTER_COVERAGE[1] * cov[2]

Last(xs) == xs[Len(xs)]

\* hypothetical fill that appends nothing when there is nothing to repeat
forward_fill_or_skip(xs, have, default) == IF have THEN Append(xs, Last(xs)) ELSE xs

\* hypothetical fill that appends the entry twice
forward_fill_twice(xs, have, default) ==
    LET x == IF have THEN Last(xs) ELSE default IN Append(Append(xs, x), x)

\* xs.append(xs[-1] if <a list is non-empty> else default)
forward_fill(xs, have, default) == Append(xs, IF have THEN Last(xs) ELSE default)

\* the state after the centroid loop has dealt with timestep i_cent
centroid_next ==
    /\ i_cent' = i_cent + 1
    /\ IF i_cent + 1 = total_steps
       THEN /\ pc' = "dispersal"
            /\ dispersal' = [j \in 1..total_steps |-> <<0, 1>>]
       ELSE /\ pc' = "centroid"
            /\ dispersal' = dispersal

unusedPathVars == <<total_steps, SUPERCONTINENT_HOLD, dispersal_norm, smooth_dispersal,
                    hold_frames, i_step, anim_frame, output_frames, camera_path, camVars>>

\* lines 96-160 for one timestep: up to the threshold loop, or to "continue"
CentroidStart ==
    /\ pc = "centroid"
    /\ i_cent < total_steps
    /\ plate_model[i_cent + 1].fails # "first"
    /\ LET reconstructed == plate_model[i_cent + 1].geoms
           pl == poly_loop(reconstructed, << >>, 0)
       IN IF reconstructed = << >>
          THEN /\ raw_lons' = forward_fill(raw_lons, raw_lons # << >>, Zero)
               /\ raw_lats' = forward_fill(raw_lats, raw_lons # << >>, Zero)
               /\ land_areas' = forward_fill(land_areas, raw_lons # << >>, 0)
               /\ centroid_next
               /\ UNCHANGED <<poly_data, total_area, t_idx, best_cluster, used_threshold, restVars>>
          ELSE IF pl[1] = << >>
          THEN /\ land_areas' = Append(land_areas, pl[2])
               /\ raw_lons' = forward_fill(raw_lons, raw_lons # << >>, Zero)
               /\ raw_lats' = forward_fill(raw_lats, raw_lats # << >>, Zero)
               /\ poly_data' = pl[1]
               /\ total_area' = pl[2]
               /\ centroid_next
               /\ UNCHANGED <<t_idx, best_cluster, used_threshold, restVars>>
          ELSE /\ land_areas' = Append(land_areas, pl[2])
               /\ poly_data' = pl[1]
               /\ total_area' = pl[2]
               /\ best_cluster' = << >>
               /\ used_threshold' = Last(CLUSTER_THRESHOLDS)
               /\ t_idx' = 0
               /\ pc' = "cluster"
               /\ UNCHANGED <<raw_lons, raw_lats, i_cent, dispersal, restVars>>
    /\ UNCHANGED <<cfVars, globeVars, flatVars, remVars, unusedPathVars,
                   plate_model, coverage, i_disp, restVars>>

\* lines 165-186: one threshold
ClusterThreshold ==
    /\ pc = "cluster"
    /\ LET threshold == CLUSTER_THRESHOLDS[t_idx + 1]
           c == cluster_at(poly_data, total_area, threshold)
       IN /\ coverage' = c.coverage
          /\ best_cluster' = c.candidate
          /\ used_threshold' = threshold
          /\ t_idx' = t_idx + 1
          /\ pc' = IF good_coverage(c.coverage) \/ t_idx + 1 = Len(CLUSTER_THRESHOLDS)
                   THEN "centroid_of_cluster" ELSE "cluster"
    /\ UNCHANGED <<cfVars, globeVars, flatVars, remVars, unusedPathVars, dispersal,
                   plate_model, raw_lons, raw_lats, land_areas, i_cent, poly_data,
                   total_area, i_disp, restVars>>

\* lines 188-205: the centroid of best_cluster
CentroidFinish ==
    /\ pc = "centroid_of_cluster"
    /\ raw_lons' = Append(raw_lons, centroid_coord("centroid_lon", poly_data, best_cluster))
    /\ raw_lats' = Append(raw_lats, centroid_coord("centroid_lat", poly_data, best_cluster))
    /\ centroid_next
    /\ UNCHANGED <<cfVars, globeVars, flatVars, remVars, unusedPathVars,
                   plate_model, land_areas, poly_data, total_area, t_idx,
                   best_cluster, used_threshold, coverage, i_disp, restVars>>

\* max(area, 0.001), area = geom.get_area() or 0.001 if that raises
dispersal_area(rg) ==
    LET area == IF rg.area_raises THEN TINY_AREA ELSE rg.area
    IN Max2(area, TINY_AREA)

\* for rg in reconstructed, dispersal loop: returns <<len(dists), np.sum(dists)>>
RECURSIVE dists_loop(_, _, _)
dists_loop(rgs, count, total) ==
    IF rgs = << >> THEN <<count, total>>
    ELSE LET rg == Head(rgs)
         IN IF ~rg.has_geom THEN dists_loop(Tail(rgs), count, total)
            ELSE IF ~rg.has_points THEN dists_loop(Tail(rgs), count, total)
            ELSE dists_loop(Tail(rgs), count + 1, total + rg.dist * dispersal_area(rg))

\* hypothetical fall-back to zero instead of the previous timestep
previous_dispersal_zero(disp, i) == <<0, 1>>

\* dispersal[max(0, i - 1)]
previous_dispersal(disp, i) == disp[Max2(0, i - 1) + 1]

\* lines 227-263 for one timestep
DispersalStep ==
    /\ pc = "dispersal"
    /\ i_disp < total_steps
    /\ plate_model[i_disp + 1].fails = "no"
    /\ LET reconstructed == plate_model[i_disp + 1].geoms
           dists == dists_loop(reconstructed, 0, 0)
       IN dispersal' =
            [dispersal EXCEPT ![i_disp + 1] =
               IF reconstructed = << >> THEN previous_dispersal(dispersal, i_disp)
               ELSE IF dists[1] > 0
               THEN <<dists[2], Max2(land_areas[i_disp + 1], TINY_AREA)>>
               ELSE previous_dispersal(dispersal, i_disp)]
    /\ i_disp' = i_disp + 1
    /\ pc' = IF i_disp + 1 = total_steps THEN "extracted" ELSE "dispersal"
    /\ UNCHANGED <<cfVars, globeVars, flatVars, remVars, unusedPathVars,
                   plate_model, raw_lons, raw_lats, land_areas, i_cent, poly_data,
                   total_area, t_idx, best_cluster, used_threshold, coverage, restVars>>

\* pygplates.reconstruct raises: nothing catches it, the script ends
ReconstructRaises ==
    /\ \/ /\ pc = "centroid"
          /\ i_cent < total_steps
          /\ plate_model[i_cent + 1].fails = "first"
       \/ /\ pc = "dispersal"
          /\ i_disp < total_steps
          /\ plate_model[i_disp + 1].fails = "second"
    /\ pc' = "aborted"
    /\ UNCHANGED <<cfVars, globeVars, flatVars, remVars, pathVars, extractVars, restVars>>

(***************************************************************************)
(* Plate models of the extraction runs.                                    *)
(***************************************************************************)
Geom(lon, area, dist) ==
    [has_geom |-> TRUE, area_raises |-> FALSE, area |-> area, has_points |-> TRUE,
     lat |-> 0, lon |-> lon, dist |-> dist]

\* get_reconstructed_geometry() is None
NoGeom == [Geom(0, 0, 0) EXCEPT !.has_geom = FALSE, !.has_points = FALSE]

\* to_lat_lon_list() is empty
NoPoints == [Geom(0, 30, 0) EXCEPT !.has_points = FALSE]

\* get_area() raises
AreaRaises(lon, dist) == [Geom(lon, 0, dist) EXCEPT !.area_raises = TRUE]

Reconstructs(geoms) == [fails |-> "no", geoms |-> geoms]

\* timesteps of a run over several timesteps: reconstruct raises in the
\* centroid loop, or only in the dispersal loop; nothing reconstructed;
\* nothing usable; one polygon; two polygons far apart
CoarseTimesteps ==
    { [fails |-> "first", geoms |-> << >>],
      [fails |-> "second", geoms |-> <<Geom(0, 30, 1)>>],
      Reconstructs(<< >>),
      Reconstructs(<<NoGeom, NoPoints>>),
      Reconstructs(<<Geom(0, 30, 1)>>),
      Reconstructs(<<Geom(0, 30, 2), Geom(42, 70, 1)>>) }

SeqsUpTo(S, maxLen) == UNION { [1..n -> S] : n \in 1..maxLen }

\* polygons for the clustering: gaps of 10, 12, 20 and 25 degrees between
\* neighbouring longitudes, two sizes
ClusterLons == {0, 10, 22, 42, 67}

ClusterAreas == {30, 70}

ClusterGeoms == { Geom(lon, area, 1) : lon \in ClusterLons, area \in ClusterAreas }

\* polygons for the dispersal: areas below, at and above 0.001, none, and
\* distances 0 and 2 to the centroid
DispersalAreas == {0, 4, 10, 30}

DispersalGeoms ==
    { Geom(0, area, dist) : area \in DispersalAreas, dist \in {0, 2} }
       \cup {NoGeom, NoPoints, AreaRaises(0, 2)}

PlateModels ==
    SeqsUpTo(CoarseTimesteps, MaxSteps)
       \cup { <<Reconstructs(geoms)>> : geoms \in SeqsUpTo(ClusterGeoms, MaxPolys) }
       \cup { <<Reconstructs(geoms)>> : geoms \in SeqsUpTo(DispersalGeoms, MaxPolys) }

(***************************************************************************)
(* SpecExtract: the centroid loop followed by the dispersal loop.          *)
(***************************************************************************)
InitExtract ==
    /\ pc = "centroid"
    /\ CFIdle
    /\ RenderIdle
    /\ plate_model \in PlateModels
    /\ total_steps = Len(plate_model)
    /\ SUPERCONTINENT_HOLD = << >>
    /\ dispersal = << >>
    /\ dispersal_norm = << >>
    /\ smooth_dispersal = << >>
    /\ hold_frames = EmptyDict
    /\ i_step = 0
    /\ anim_frame = 0
    /\ output_frames = << >>
    /\ camera_path = None
    /\ smooth_lons = << >>
    /\ smooth_lats = << >>
    /\ ERA_OVERRIDES = << >>
    /\ raw_lons = << >>
    /\ raw_lats = << >>
    /\ land_areas = << >>
    /\ i_cent = 0
    /\ poly_data = << >>
    /\ total_area = 0
    /\ t_idx = 0
    /\ best_cluster = << >>
    /\ used_threshold = 0
    /\ coverage = <<0, 1>>
    /\ i_disp = 0
    /\ RestIdle

NextExtract ==
    CentroidStart \/ ClusterThreshold \/ CentroidFinish \/ DispersalStep
       \/ ReconstructRaises

SpecExtract == InitExtract /\ [][NextExtract]_vars

(***************************************************************************)
(* compute_camera_path.py: era overrides, blending and smoothing of the    *)
(* camera track.                                                           *)
(*                                                                         *)
(* The numbers of this part are fractions <<n, d>> in lowest terms with    *)
(* d > 0, so that equal numbers are equal pairs; a degree or a time that   *)
(* is a whole number x is <<x, 1>>.  A target that is None in the keyframe *)
(* table is the empty tuple.  The keyframes are authored in descending     *)
(* time with distinct times, as in the script, so that the reversed lists  *)
(* handed to interp1d are ascending.  The direction of a smoothed unit     *)
(* vector has no closed form in the fractions: a smoothed coordinate is    *)
(* kept as the term "coordinate j of the filtered unit vectors of this     *)
(* track".                                                                 *)
(***************************************************************************)
Abs(x) == IF x >= 0 THEN x ELSE -x

RECURSIVE gcd(_, _)
gcd(a, b) == IF b = 0 THEN a ELSE gcd(b, a % b)

frac(n, d) ==
    LET s == IF d < 0 THEN -1 ELSE 1
        g == gcd(Abs(n), Abs(d))
    IN <<(s * n) \div g, (s * d) \div g>>

whole(x) == <<x, 1>>

frac_add(a, b) ==
    LET l == (a[2] \div gcd(a[2], b[2])) * b[2]
    IN frac(a[1] * (l \div a[2]) + b[1] * (l \div b[2]), l)

frac_sub(a, b) == frac_add(a, <<-b[1], b[2]>>)

frac_mul(a, b) == frac(a[1] * b[1], a[2] * b[2])

frac_div(a, b) == frac(a[1] * b[2], a[2] * b[1])

\* xs[::-1]
reversed(xs) == [k \in 1..Len(xs) |-> xs[Len(xs) + 1 - k]]

era_times(eras) == [k \in 1..Len(eras) |-> eras[k][1]]

era_weights(eras) == [k \in 1..Len(eras) |-> eras[k][5]]

\* t_idx of the keyframe e
era_t_idx(e) == Max2(0, Min2(int_div(TIME_START - e[1], TIME_STEP), total_steps - 1))

\* e[1] if e[1] is not None else raw_lons[t_idx], and the same for e[2]
era_target(e, field, raw) == IF e[field] # << >> THEN e[field] ELSE raw[era_t_idx(e) + 1]

\* np.searchsorted(x, x_new) for ascending x
searchsorted(x, x_new) == Cardinality({ k \in 1..Len(x) : x[k] < x_new })

clip(v, lo, hi) == Max2(lo, Min2(v, hi))

\* interp1d(x, y, kind='linear', fill_value='extrapolate')(x_new): the line
\* through the two knots around x_new, or through the two outermost knots
\* on the side of x_new when it lies outside them
interp1d(x, y, x_new) ==
    LET hi == clip(searchsorted(x, x_new), 1, Len(x) - 1)
        lo == hi - 1
        slope == frac_div(frac_sub(y[hi + 1], y[lo + 1]), whole(x[hi + 1] - x[lo + 1]))
    IN frac_add(frac_mul(slope, whole(x_new - x[lo + 1])), y[lo + 1])

times_array == [j \in 1..total_steps |-> times(j - 1)]

\* interp(times[::-1])[::-1] for interp = interp1d(era_times[::-1], ys[::-1], ...)
override(eras, ys) ==
    LET x == reversed(era_times(eras))
        y == reversed(ys)
        x_new == reversed(times_array)
    IN reversed([k \in 1..Len(x_new) |-> interp1d(x, y, x_new[k])])

\* hypothetical blend with the two weights exchanged
blend_exchanged(raw, w, ov) ==
    frac_add(frac_mul(raw, w), frac_mul(ov, frac_sub(whole(1), w)))

\* raw * (1 - override_weight) + override * override_weight
blend(raw, w, ov) ==
    frac_add(frac_mul(raw, frac_sub(whole(1), w)), frac_mul(ov, w))

\* (cart_x, cart_y, cart_z) of one timestep
unit_vector(lon, lat) == [value |-> "unit vector", lon |-> lon, lat |-> lat]

\* hypothetical smoothing of the computed centroids instead of the blend
smooth_coord_of_raw(axis, lons, lats) ==
    [j \in 1..Len(lons) |->
        [value |-> axis, index |-> j - 1,
         of |-> [k \in 1..Len(lons) |-> unit_vector(raw_lons[k], raw_lats[k])]]]

\* smooth_lons or smooth_lats of the track (lons, lats): the coordinate of
\* gaussian_filter1d of its unit vectors
smooth_coord(axis, lons, lats) ==
    [j \in 1..Len(lons) |->
        [value |-> axis, index |-> j - 1,
         of |-> [k \in 1..Len(lons) |-> unit_vector(lons[k], lats[k])]]]

notBlendVars == <<cfVars, globeVars, flatVars, remVars, total_steps, SUPERCONTINENT_HOLD,
                  dispersal, dispersal_norm, smooth_dispersal, hold_frames, i_step,
                  anim_frame, output_frames, camera_path, ERA_OVERRIDES, extractVars,
                  genVars, subVars>>

\* lines 302-312
EraTargets ==
    /\ pc = "era"
    /\ era_lons' = [k \in 1..Len(ERA_OVERRIDES) |-> era_target(ERA_OVERRIDES[k], 2, raw_lons)]
    /\ era_lats' = [k \in 1..Len(ERA_OVERRIDES) |-> era_target(ERA_OVERRIDES[k], 3, raw_lats)]
    /\ pc' = "interpolate"
    /\ UNCHANGED <<notBlendVars, smooth_lons, smooth_lats, override_weights, override_lons,
                   override_lats, blended_lons, blended_lats>>

\* lines 315-324
Interpolate ==
    /\ pc = "interpolate"
    /\ override_weights' = override(ERA_OVERRIDES, era_weights(ERA_OVERRIDES))
    /\ override_lons' = override(ERA_OVERRIDES, era_lons)
    /\ override_lats' = override(ERA_OVERRIDES, era_lats)
    /\ pc' = "blend"
    /\ UNCHANGED <<notBlendVars, smooth_lons, smooth_lats, era_lons, era_lats,
                   blended_lons, blended_lats>>

\* lines 327-328
Blend ==
    /\ pc = "blend"
    /\ blended_lons' = [j \in 1..total_steps |->
                           blend(raw_lons[j], override_weights[j], override_lons[j])]
    /\ blended_lats' = [j \in 1..total_steps |->
                           blend(raw_lats[j], override_weights[j], override_lats[j])]
    /\ pc' = "smooth"
    /\ UNCHANGED <<notBlendVars, smooth_lons, smooth_lats, era_lons, era_lats,
                   override_weights, override_lons, override_lats>>

\* lines 337-352
Smooth ==
    /\ pc = "smooth"
    /\ smooth_lons' = smooth_coord("smooth_lon", blended_lons, blended_lats)
    /\ smooth_lats' = smooth_coord("smooth_lat", blended_lons, blended_lats)
    /\ pc' = "smoothed"
    /\ UNCHANGED <<notBlendVars, blendVars>>

(***************************************************************************)
(* Inputs of the era overrides.  Computed centroids: a track that wanders  *)
(* over all longitudes and latitudes, and one that stays put.  Keyframe    *)
(* tables: the table of the script, for its 1001 timesteps, and for short  *)
(* runs every table of two or three keyframes at descending times from one *)
(* step past the end of the run to one step before its start, each with a  *)
(* weight of 0, 1/2 or 1 and with a target or None.                        *)
(***************************************************************************)
RawLon(kind, i) == IF kind = "wander" THEN whole(((37 * i) % 360) - 180) ELSE whole(30)

RawLat(kind, i) == IF kind = "wander" THEN whole(((23 * i) % 180) - 90) ELSE whole(-20)

RawKinds == {"wander", "still"}

ConfiguredSteps == 1001

ConfiguredEras ==
    << <<1000, << >>, << >>, "Rodinia assembling", <<0, 1>> >>,
       <<900, << >>, << >>, "Rodinia assembled", <<0, 1>> >>,
       <<750, << >>, << >>, "Rodinia breaking up", <<0, 1>> >>,
       <<550, whole(100), whole(-45), "Gondwana assembling", <<1, 2>> >>,
       <<480, whole(120), whole(-50), "Gondwana assembled", <<1, 2>> >>,
       <<380, whole(5), whole(-15), "Laurussia forming", <<2, 5>> >>,
       <<350, whole(0), whole(-10), "Pangaea assembling", <<1, 2>> >>,
       <<300, whole(0), whole(10), "Pangaea coalescing", <<3, 5>> >>,
       <<250, whole(0), whole(10), "Pangaea assembled", <<7, 10>> >>,
       <<200, whole(20), whole(15), "Pangaea breaking up", <<1, 2>> >>,
       <<150, whole(20), whole(10), "Atlantic Ocean opening", <<3, 10>> >>,
       <<100, whole(10), whole(10), "India racing north", <<1, 5>> >>,
       <<66, whole(0), whole(10), "K-Pg extinction", <<1, 5>> >>,
       <<50, whole(0), whole(20), "Modern world forming", <<1, 10>> >>,
       <<0, whole(15), whole(25), "Present day", <<2, 5>> >> >>

EraTargetChoices == { << << >>, << >> >>, <<whole(100), whole(-45)>> }

EraWeightChoices == { <<0, 1>>, <<1, 2>>, <<1, 1>> }

DescendingTimes(n) ==
    { ts \in [1..n -> (TIME_END - TIME_STEP)..(TIME_START + TIME_STEP)] :
         \A k \in 1..(n - 1) : ts[k] > ts[k + 1] }

ShortEras ==
    UNION { { [k \in 1..n |-> <<ts[k], tg[k][1], tg[k][2], EraLabel(ts[k]), ws[k]>>] :
                 ts \in DescendingTimes(n),
                 tg \in [1..n -> EraTargetChoices],
                 ws \in [1..n -> EraWeightChoices] } : n \in 2..3 }

\* the state before line 279, the extraction done and the pacing not begun
BlendStart ==
    /\ pc = "era"
    /\ CFIdle
    /\ RenderIdle
    /\ SUPERCONTINENT_HOLD = << >>
    /\ dispersal = << >>
    /\ dispersal_norm = << >>
    /\ smooth_dispersal = << >>
    /\ hold_frames = EmptyDict
    /\ i_step = 0
    /\ anim_frame = 0
    /\ output_frames = << >>
    /\ camera_path = None
    /\ smooth_lons = << >>
    /\ smooth_lats = << >>
    /\ plate_model = << >>
    /\ \E kind \in RawKinds :
          /\ raw_lons = [j \in 1..total_steps |-> RawLon(kind, j - 1)]
          /\ raw_lats = [j \in 1..total_steps |-> RawLat(kind, j - 1)]
    /\ land_areas = << >>
    /\ i_cent = total_steps
    /\ poly_data = << >>
    /\ total_area = 0
    /\ t_idx = 0
    /\ best_cluster = << >>
    /\ used_threshold = 0
    /\ coverage = <<0, 1>>
    /\ i_disp = total_steps
    /\ RestIdle

(***************************************************************************)
(* SpecBlend: the era overrides up to the blended track, on the keyframe   *)
(* table of the script and on the short tables.                            *)
(***************************************************************************)
InitBlend ==
    /\ \/ /\ total_steps = ConfiguredSteps
          /\ ERA_OVERRIDES = ConfiguredEras
       \/ /\ total_steps \in 2..MaxBlendSteps
          /\ ERA_OVERRIDES \in ShortEras
    /\ BlendStart

NextBlend == EraTargets \/ Interpolate \/ Blend

SpecBlend == InitBlend /\ [][NextBlend]_vars

(***************************************************************************)
(* SpecSmooth: the era overrides followed by the smoothing, on the short   *)
(* tables.                                                                 *)
(***************************************************************************)
InitSmooth ==
    /\ total_steps \in 2..MaxBlendSteps
    /\ ERA_OVERRIDES \in ShortEras
    /\ BlendStart

NextSmooth == EraTargets \/ Interpolate \/ Blend \/ Smooth

SpecSmooth == InitSmooth /\ [][NextSmooth]_vars

(***************************************************************************)
(* generate_frames.py: the main rendering loop and the verification.  A    *)
(* file of FRAMES_DIR is the record of its name and of the time its image  *)
(* shows, -1 for a file that an earlier run left behind.  A name is the    *)
(* tuple of FRAME_PREFIX, the digits of the frame index and the suffix.    *)
(***************************************************************************)
FRAMES_TIME_START == 1000

FRAMES_TIME_END == 0

FRAMES_TIME_STEP == 1

FRAME_PREFIX == "globe_frame_"

\* hypothetical time array that stops one step before TIME_END
frame_times_open ==
    [j \in 1..((FRAMES_TIME_START - FRAMES_TIME_END) \div FRAMES_TIME_STEP) |->
        FRAMES_TIME_START - (j - 1) * FRAMES_TIME_STEP]

\* times = np.arange(TIME_START, TIME_END - 1, -TIME_STEP)
frame_times ==
    [j \in 1..((FRAMES_TIME_START - (FRAMES_TIME_END - 1) + FRAMES_TIME_STEP - 1)
                  \div FRAMES_TIME_STEP) |->
        FRAMES_TIME_START - (j - 1) * FRAMES_TIME_STEP]

total_frames == Len(frame_times)

RECURSIVE decimal(_)
decimal(n) == IF n < 10 THEN <<n>> ELSE Append(decimal(n \div 10), n % 10)

\* f'{n:04d}' and the like: the decimal digits of n, zeros in front up to width
zero_padded(n, width) ==
    LET d == decimal(n)
    IN IF Len(d) >= width THEN d ELSE [k \in 1..(width - Len(d)) |-> 0] \o d

\* os.path.basename(out_path)
frame_name(frame_idx) == <<FRAME_PREFIX, zero_padded(frame_idx, 4), ".png">>

\* fig.savefig(out_path): the file is created or replaced
savefig(dir, name, time_ma) ==
    { f \in dir : f.name # name } \cup { [name |-> name, time_ma |-> time_ma] }

notGenVars == <<cfVars, globeVars, flatVars, remVars, pathVars, extractVars, blendVars, subVars>>

\* one iteration of "for i, time_ma in enumerate(times)"
RenderFrame ==
    /\ pc = "frames"
    /\ i_gen < total_frames
    /\ frames_dir' = savefig(frames_dir, frame_name(i_gen), frame_times[i_gen + 1])
    /\ i_gen' = i_gen + 1
    /\ pc' = IF i_gen + 1 = total_frames THEN "verify" ELSE "frames"
    /\ UNCHANGED notGenVars

\* lines 211-217: the files of FRAMES_DIR counted against total_frames
VerifyFrames ==
    /\ pc = "verify"
    /\ pc' = IF Cardinality({ f \in frames_dir : f.name[1] = FRAME_PREFIX /\ f.name[3] = ".png" })
                  = total_frames
             THEN "frames found" ELSE "frames expected"
    /\ UNCHANGED <<notGenVars, genVars>>

\* FRAMES_DIR before the run: empty, or with a frame of an earlier run that
\* this run replaces or that lies past its last frame
StaleFrame(n) == [name |-> frame_name(n), time_ma |-> -1]

InitFrames ==
    /\ pc = "frames"
    /\ CFIdle
    /\ RenderIdle
    /\ PathIdle
    /\ ExtractIdle
    /\ era_lons = << >>
    /\ era_lats = << >>
    /\ override_weights = << >>
    /\ override_lons = << >>
    /\ override_lats = << >>
    /\ blended_lons = << >>
    /\ blended_lats = << >>
    /\ i_gen = 0
    /\ frames_dir \in { {}, {StaleFrame(5)}, {StaleFrame(1200)} }
    /\ ass_events_globe = None
    /\ ass_events_flat = None

NextFrames == RenderFrame \/ VerifyFrames

SpecFrames == InitFrames /\ [][NextFrames]_vars

(***************************************************************************)
(* render_globe.py and render_flat.py: the subtitle events.  The state of  *)
(* a script's grouping loop is the record                                  *)
(* [i: frames consumed, prev_time_ma, prev_era, block_start_frame,         *)
(*  ass_events, written: OVERLAY_SCRIPT has been written];                 *)
(* prev_time_ma and prev_era are << >> for None and <<value>> otherwise.   *)
(* A frame without the key era_label reads as era_label = "".              *)
(***************************************************************************)
FPS_GLOBE == 24

FPS_FLAT == 24

notSubVars == <<cfVars, globeVars, flatVars, remVars, pathVars, extractVars, blendVars, genVars>>

\* ass_events = [], prev_time_ma = None, prev_era = None, block_start_frame = 0
subtitle_start ==
    [i |-> 0, prev_time_ma |-> << >>, prev_era |-> << >>, block_start_frame |-> 0,
     ass_events |-> << >>, written |-> FALSE]

\* def frame_to_ass_time(frame_num, fps): the string "H:MM:SS.CC" as
\* <<H, MM, hundredths of a second in SS.CC>>.  frame_num / fps is a multiple
\* of 1/8 whenever the two decimals fall on a tie, hence an exact float, and
\* the format rounds an exact tie to the even digit
frame_to_ass_time_globe(frame_num, fps) ==
    LET h == frame_num \div (3600 * fps)
        m == (frame_num % (3600 * fps)) \div (60 * fps)
        s == <<frame_num % (60 * fps), fps>>
    IN <<h, m, py_round(<<100 * s[1], s[2]>>)>>

\* f"{int(prev_time_ma)} Ma", for the whole-numbered times of the camera path
time_str_globe(prev_time_ma) == <<prev_time_ma, " Ma">>

\* f"Dialogue: 0,{start_ts},{end_ts},{style},,0,0,0,,{text}"
dialogue_globe(start_ts, end_ts, style, text) ==
    [start |-> start_ts, end |-> end_ts, style |-> style, text |-> text]

\* the two appends that close a block: the TimeLabel event, and the
\* EraLabel event "if prev_era"
close_block_globe(ass_events, block_start_frame, end_frame, prev_time_ma, prev_era) ==
    LET start_ts == frame_to_ass_time_globe(block_start_frame, FPS_GLOBE)
        end_ts == frame_to_ass_time_globe(end_frame, FPS_GLOBE)
        timed == Append(ass_events,
                        dialogue_globe(start_ts, end_ts, "TimeLabel",
                                       time_str_globe(prev_time_ma[1])))
    IN IF prev_era # << >> /\ prev_era[1] # ""
       THEN Append(timed, dialogue_globe(start_ts, end_ts, "EraLabel", prev_era[1]))
       ELSE timed

\* mutant: hypothetical grouping that looks at time_ma alone
subtitle_frame_by_time_globe(st, pf) ==
    IF <<pf.time_ma>> # st.prev_time_ma
    THEN [st EXCEPT
            !.ass_events = IF st.prev_time_ma # << >>
                           THEN close_block_globe(st.ass_events, st.block_start_frame,
                                                  pf.anim_frame, st.prev_time_ma, st.prev_era)
                           ELSE @,
            !.block_start_frame = pf.anim_frame,
            !.prev_time_ma = <<pf.time_ma>>,
            !.prev_era = <<pf.era_label>>]
    ELSE st

\* the body of "for pf in path_frames"
subtitle_frame_globe(st, pf) ==
    IF <<pf.time_ma>> # st.prev_time_ma \/ <<pf.era_label>> # st.prev_era
    THEN [st EXCEPT
            !.ass_events = IF st.prev_time_ma # << >>
                           THEN close_block_globe(st.ass_events, st.block_start_frame,
                                                  pf.anim_frame, st.prev_time_ma, st.prev_era)
                           ELSE @,
            !.block_start_frame = pf.anim_frame,
            !.prev_time_ma = <<pf.time_ma>>,
            !.prev_era = <<pf.era_label>>]
    ELSE st

\* "Close final block" and the write of OVERLAY_SCRIPT
subtitle_close_globe(st, total_anim_frames) ==
    [st EXCEPT
        !.ass_events = IF st.prev_time_ma # << >>
                       THEN close_block_globe(st.ass_events, st.block_start_frame,
                                              total_anim_frames, st.prev_time_ma, st.prev_era)
                       ELSE @,
        !.written = TRUE]

SubtitleFrameGlobe ==
    /\ pc = "subtitles globe"
    /\ ass_events_globe.i < Len(path_frames)
    /\ ass_events_globe' =
          [subtitle_frame_globe(ass_events_globe, path_frames[ass_events_globe.i + 1])
              EXCEPT !.i = @ + 1]
    /\ UNCHANGED <<pc, ass_events_flat, notSubVars>>

SubtitleCloseGlobe ==
    /\ pc = "subtitles globe"
    /\ ass_events_globe.i = Len(path_frames)
    /\ ass_events_globe' = subtitle_close_globe(ass_events_globe, Len(path_frames))
    /\ pc' = "subtitles flat"
    /\ UNCHANGED <<ass_events_flat, notSubVars>>

\* def frame_to_ass_time(frame_num, fps): the string "H:MM:SS.CC" as
\* <<H, MM, hundredths of a second in SS.CC>>.  frame_num / fps is a multiple
\* of 1/8 whenever the two decimals fall on a tie, hence an exact float, and
\* the format rounds an exact tie to the even digit
frame_to_ass_time_flat(frame_num, fps) ==
    LET h == frame_num \div (3600 * fps)
        m == (frame_num % (3600 * fps)) \div (60 * fps)
        s == <<frame_num % (60 * fps), fps>>
    IN <<h, m, py_round(<<100 * s[1], s[2]>>)>>

\* f"{int(prev_time_ma)} Ma", for the whole-numbered times of the camera path
time_str_flat(prev_time_ma) == <<prev_time_ma, " Ma">>

\* f"Dialogue: 0,{start_ts},{end_ts},{style},,0,0,0,,{text}"
dialogue_flat(start_ts, end_ts, style, text) ==
    [start |-> start_ts, end |-> end_ts, style |-> style, text |-> text]

\* the two appends that close a block: the TimeLabel event, and the
\* EraLabel event "if prev_era"
close_block_flat(ass_events, block_start_frame, end_frame, prev_time_ma, prev_era) ==
    LET start_ts == frame_to_ass_time_flat(block_start_frame, FPS_FLAT)
        end_ts == frame_to_ass_time_flat(end_frame, FPS_FLAT)
        timed == Append(ass_events,
                        dialogue_flat(start_ts, end_ts, "TimeLabel",
                                       time_str_flat(prev_time_ma[1])))
    IN IF prev_era # << >> /\ prev_era[1] # ""
       THEN Append(timed, dialogue_flat(start_ts, end_ts, "EraLabel", prev_era[1]))
       ELSE timed

\* the body of "for pf in path_frames"
subtitle_frame_flat(st, pf) ==
    IF <<pf.time_ma>> # st.prev_time_ma \/ <<pf.era_label>> # st.prev_era
    THEN [st EXCEPT
            !.ass_events = IF st.prev_time_ma # << >>
                           THEN close_block_flat(st.ass_events, st.block_start_frame,
                                                  pf.anim_frame, st.prev_time_ma, st.prev_era)
                           ELSE @,
            !.block_start_frame = pf.anim_frame,
            !.prev_time_ma = <<pf.time_ma>>,
            !.prev_era = <<pf.era_label>>]
    ELSE st

\* "Close final block" and the write of OVERLAY_SCRIPT
subtitle_close_flat(st, total) ==
    [st EXCEPT
        !.ass_events = IF st.prev_time_ma # << >>
                       THEN close_block_flat(st.ass_events, st.block_start_frame,
                                              total, st.prev_time_ma, st.prev_era)
                       ELSE @,
        !.written = TRUE]

SubtitleFrameFlat ==
    /\ pc = "subtitles flat"
    /\ ass_events_flat.i < Len(path_frames)
    /\ ass_events_flat' =
          [subtitle_frame_flat(ass_events_flat, path_frames[ass_events_flat.i + 1])
              EXCEPT !.i = @ + 1]
    /\ UNCHANGED <<pc, ass_events_globe, notSubVars>>

SubtitleCloseFlat ==
    /\ pc = "subtitles flat"
    /\ ass_events_flat.i = Len(path_frames)
    /\ ass_events_flat' = subtitle_close_flat(ass_events_flat, Len(path_frames))
    /\ pc' = "subtitles done"
    /\ UNCHANGED <<ass_events_globe, notSubVars>>

\* frame lists for the subtitles: runs of frames of one time and era, the
\* neighbours of a run differing from it in time, in era or in both;
\* anim_frame is the position in the list, as compute_camera_path.py writes it
SubLabels == { <<1, "Rodinia">>, <<1, "">>, <<0, "">> }

SubRunSpecs ==
    { rs \in UNION { [1..n -> SubLabels \X (1..MaxSubRunLen)] : n \in 1..MaxSubRuns } :
        \A j \in 1..(Len(rs) - 1) : rs[j][1] # rs[j + 1][1] }

\* a list that runs past one minute of video
LongSubRuns == << <<<<1, "Rodinia">>, 1439>>, <<<<1, "">>, 2>>, <<<<0, "">>, 60>> >>

RECURSIVE SubLabelList(_)
SubLabelList(rs) ==
    IF rs = << >> THEN << >>
    ELSE [j \in 1..rs[1][2] |-> rs[1][1]] \o SubLabelList(Tail(rs))

SubFramesOf(rs) ==
    LET labels == SubLabelList(rs)
    IN [j \in 1..Len(labels) |->
          [anim_frame |-> j - 1, geo_frame_idx |-> FRAMES_TIME_START - labels[j][1],
           time_ma |-> labels[j][1], era_label |-> labels[j][2]]]

(***************************************************************************)
(* SpecSubtitles: the subtitle sections of render_globe.py and             *)
(* render_flat.py run on the same camera path.                             *)
(***************************************************************************)
InitSubtitles ==
    /\ pc = "subtitles globe"
    /\ path_frames \in { SubFramesOf(rs) : rs \in SubRunSpecs \cup {LongSubRuns} }
    /\ crossfade_half = 0
    /\ map_globe = EmptyDict
    /\ map_flat = EmptyDict
    /\ map_test = EmptyDict
    /\ called = {}
    /\ RenderIdle
    /\ PathIdle
    /\ ExtractIdle
    /\ era_lons = << >>
    /\ era_lats = << >>
    /\ override_weights = << >>
    /\ override_lons = << >>
    /\ override_lats = << >>
    /\ blended_lons = << >>
    /\ blended_lats = << >>
    /\ i_gen = 0
    /\ frames_dir = {}
    /\ ass_events_globe = subtitle_start
    /\ ass_events_flat = subtitle_start

NextSubtitles ==
    SubtitleFrameGlobe \/ SubtitleCloseGlobe \/ SubtitleFrameFlat \/ SubtitleCloseFlat

SpecSubtitles == InitSubtitles /\ [][NextSubtitles]_vars

(***************************************************************************)
(* The frame list read directly, independently of the code's run tuples:   *)
(* a boundary is a frame whose geo_frame_idx differs from its              *)
(* predecessor's, and the two maximal runs meeting there are measured by   *)
(* counting equal neighbours.                                              *)
(***************************************************************************)
NFrames == Len(path_frames)

Geo(i) == path_frames[i + 1].geo_frame_idx

Boundaries == { t \in 1..(NFrames - 1) : Geo(t) # Geo(t - 1) }

OutLen(t) == Cardinality({ d \in 1..t : \A e \in 1..d : Geo(t - e) = Geo(t - 1) })

InLen(t) == Cardinality({ d \in 1..(NFrames - t) : \A e \in 0..(d - 1) : Geo(t + e) = Geo(t) })

HalfAt(t) == Min3(OutLen(t) \div 2, InLen(t) \div 2, crossfade_half)

\* the frames of the two runs meeting at t that carry an assignment naming them
AssignedFor(m, t) ==
    { j \in DOMAIN m :
        /\ t - OutLen(t) <= j
        /\ j < t + InLen(t)
        /\ m[j][1] = Geo(t - 1)
        /\ m[j][2] = Geo(t) }

WindowOf(t) == IF HalfAt(t) < 1 THEN {} ELSE (t - HalfAt(t))..(t + HalfAt(t) - 1)

\* the maps of the two renderers' copies, once returned
ReturnedMaps ==
    (IF "globe" \in called THEN {map_globe} ELSE {})
        \cup (IF "flat" \in called THEN {map_flat} ELSE {})

(***************************************************************************)
(* C1: for every adjacent pair of maximal runs, with                       *)
(* half = min(len(outgoing) div 2, len(incoming) div 2, half_window), no   *)
(* frame receives a crossfade assignment for that boundary when half < 1   *)
(* (in particular when either run has length 1), and exactly 2*half frames *)
(* receive one when half >= 1.                                             *)
(***************************************************************************)
C1_HalfDecidesWindowSize ==
    \A m \in ReturnedMaps :
        /\ \A t \in Boundaries :
            /\ Cardinality(AssignedFor(m, t)) = (IF HalfAt(t) < 1 THEN 0 ELSE 2 * HalfAt(t))
            /\ (OutLen(t) = 1 \/ InLen(t) = 1) => AssignedFor(m, t) = {}
        /\ \A j \in DOMAIN m : \E t \in Boundaries : j \in AssignedFor(m, t)

C1_Witness ==
    /\ called = {"globe", "flat", "test"}
    /\ crossfade_half >= 2
    /\ \E t \in Boundaries : InLen(t) = 1 /\ OutLen(t) >= 4 /\ AssignedFor(map_globe, t) = {}
    /\ \E t \in Boundaries : HalfAt(t) = 2 /\ Cardinality(AssignedFor(map_flat, t)) = 4

(***************************************************************************)
(* C2: for a boundary with half >= 1 whose incoming run starts at frame t, *)
(* the assigned frames are exactly t-half .. t+half-1, the last half       *)
(* frames of the outgoing run and the first half frames of the incoming    *)
(* run, each mapped to (outgoing geo_frame_idx, incoming geo_frame_idx,    *)
(* blend); two runs of length 10 with half_window = 2 give assignments on  *)
(* exactly the frames 8, 9, 10, 11.                                        *)
(***************************************************************************)
C2_WindowStraddlesBoundary ==
    \A m \in ReturnedMaps :
        /\ DOMAIN m = UNION { WindowOf(t) : t \in Boundaries }
        /\ \A t \in Boundaries : \A j \in WindowOf(t) :
            /\ m[j][1] = Geo(t - 1)
            /\ m[j][2] = Geo(t)
            /\ Geo(j) = (IF j < t THEN Geo(t - 1) ELSE Geo(t))
            /\ m[j][3][1] * (2 * HalfAt(t) + 1) = (j - (t - HalfAt(t)) + 1) * m[j][3][2]
        /\ (NFrames = 20 /\ Boundaries = {10} /\ crossfade_half = 2)
               => DOMAIN m = {8, 9, 10, 11}

C2_Witness ==
    /\ "globe" \in called
    /\ NFrames = 20
    /\ Boundaries = {10}
    /\ crossfade_half = 2
    /\ DOMAIN map_globe = {8, 9, 10, 11}
    /\ map_globe[8][1] = Geo(9)
    /\ map_globe[11][2] = Geo(10)

(***************************************************************************)
(* C3: the blend factor of the k-th frame (0-indexed) of a window of size  *)
(* w = 2*half is (k+1)/(w+1); it is strictly increasing across the window  *)
(* and strictly between 0 and 1 (0.2, 0.4, 0.6, 0.8 for w = 4), so no      *)
(* assigned frame has blend factor 0 or 1.                                 *)
(***************************************************************************)
C3_BlendStrictlyInside ==
    \A m \in ReturnedMaps :
        /\ \A j \in DOMAIN m :
            /\ m[j][3][2] > 0
            /\ 0 < m[j][3][1]
            /\ m[j][3][1] < m[j][3][2]
        /\ \A t \in Boundaries : \A j \in WindowOf(t) :
            LET w == 2 * HalfAt(t)
                k == j - (t - HalfAt(t))
            IN /\ m[j][3][1] * (w + 1) = (k + 1) * m[j][3][2]
               /\ (k + 1 < w) =>
                    m[j][3][1] * m[j + 1][3][2] < m[j + 1][3][1] * m[j][3][2]
               /\ (w = 4) => 10 * m[j][3][1] = (2 * (k + 1)) * m[j][3][2]

C3_Witness ==
    /\ "globe" \in called
    /\ \E t \in Boundaries :
        /\ HalfAt(t) = 2
        /\ map_globe[t - 2][3] = <<1, 5>>
        /\ map_globe[t - 1][3] = <<2, 5>>
        /\ map_globe[t][3] = <<3, 5>>
        /\ map_globe[t + 1][3] = <<4, 5>>

(***************************************************************************)
(* C4: the copies of compute_crossfade_schedule in render_globe.py,        *)
(* render_flat.py and test_crossfade.py return the same assignment map for *)
(* every non-empty frame list and every half-window, and leave their       *)
(* arguments unmodified.                                                   *)
(***************************************************************************)
C4_CopiesAgree ==
    /\ []( /\ ("globe" \in called /\ "flat" \in called) => map_globe = map_flat
           /\ ("globe" \in called /\ "test" \in called) => map_globe = map_test
           /\ ("flat" \in called /\ "test" \in called) => map_flat = map_test )
    /\ [][path_frames' = path_frames /\ crossfade_half' = crossfade_half]_vars

C4_Witness ==
    /\ called = {"globe", "flat", "test"}
    /\ Cardinality(DOMAIN map_globe) >= 6
    /\ map_globe = map_flat
    /\ map_flat = map_test
    /\ \E j \in DOMAIN map_test : map_test[j][3] = <<2, 3>>

(***************************************************************************)
(* What a frame rendered by render_globe.py shows: with factor 0 the Mix   *)
(* node passes slot A alone.                                               *)
(***************************************************************************)
Shown(o) == IF o.mix[1] = 0 THEN Pure(o.a) ELSE <<o.a, o.b, o.mix>>

(***************************************************************************)
(* C5: every renderer that consumes the camera path applies the same       *)
(* crossfade assignment: render_globe.py, render_flat.py and the resume    *)
(* renderer render_remaining.py render each animation frame with the same  *)
(* (outgoing texture, incoming texture, blend factor), or all render it    *)
(* pure.                                                                   *)
(***************************************************************************)
C5_RenderersAgree ==
    pc = "done" =>
        \A n \in 1..NFrames :
            /\ Shown(out_globe[n]) = out_flat[n]
            /\ n \in DOMAIN out_rem => out_rem[n] = out_flat[n]

(***************************************************************************)
(* C6: at the moment render_globe.py renders a frame, if the frame is in   *)
(* the crossfade map then slot A holds the outgoing timestep's image, slot *)
(* B the incoming timestep's image and the mix factor is the blend factor; *)
(* otherwise slot A holds the image of the frame's own geo_frame_idx and   *)
(* the mix factor is 0.                                                    *)
(***************************************************************************)
C6_SlotsMatchSchedule ==
    \A n \in 1..Len(out_globe) :
        LET i == n - 1
            o == out_globe[n]
        IN IF i \in DOMAIN map_globe
           THEN /\ o.a = map_globe[i][1]
                /\ o.b = map_globe[i][2]
                /\ o.mix = map_globe[i][3]
                /\ {o.a, o.b} \subseteq o.imgs
                /\ \E t \in Boundaries :
                    i \in WindowOf(t) /\ o.a = Geo(t - 1) /\ o.b = Geo(t)
           ELSE /\ o.a = Geo(i)
                /\ o.a \in o.imgs
                /\ o.mix[1] = 0

C6_Witness ==
    /\ pc = "flat"
    /\ \E n \in 1..(Len(out_globe) - 2) :
        /\ (n - 1) \in DOMAIN map_globe
        /\ out_globe[n].a # out_globe[n].b
        /\ out_globe[n].mix = <<2, 3>>
        /\ (n + 1) \notin DOMAIN map_globe
        /\ out_globe[n + 2].mix = <<0, 1>>
        /\ out_globe[n + 2].a = out_globe[n].b
    /\ \E t \in Boundaries : WindowOf(t) = {}

(***************************************************************************)
(* The exported frame list read directly.                                  *)
(***************************************************************************)
Expanded == 0..(i_step - 1)

FrameCount(i) ==
    Cardinality({ j \in 1..Len(output_frames) : output_frames[j].geo_frame_idx = i })

\* the extra frames configured for timestep i: those of the last configured
\* hold whose time falls on i, the time range being closed at both ends
ConfiguredExtra(i) ==
    LET H == SUPERCONTINENT_HOLD
        At(t) == IF t >= TIME_START THEN 0
                 ELSE IF t <= TIME_END THEN total_steps - 1
                 ELSE (TIME_START - t) \div TIME_STEP
        S == { j \in 1..Len(H) : At(H[j][1]) = i }
    IN IF S = {} THEN 0
       ELSE H[CHOOSE j \in S : \A k \in S : k <= j][2]

RegularCount(i) == FrameCount(i) - ConfiguredExtra(i)

\* n is the integer nearest to the float r, the even one at a tie
NearestEven(n, r) ==
    LET twice == 2 * (n * r[2] - r[1])
    IN /\ twice <= r[2]
       /\ -twice <= r[2]
       /\ (twice = r[2] \/ -twice = r[2]) => n % 2 = 0

\* max(1, round(min_speed + (max_speed - min_speed) * (1 - d)))
PacedFrames(d) ==
    LET speed == <<MIN_SPEED * d[2] + (MAX_SPEED - MIN_SPEED) * (d[2] - d[1]), d[2]>>
        n == CHOOSE m \in 0..(MAX_SPEED + 1) : NearestEven(m, speed)
    IN IF n >= 1 THEN n ELSE 1

IsOne(d) == d[1] = d[2]

IsZero(d) == d[1] = 0

(***************************************************************************)
(* C7.  Reading the frames in order, geo_frame_idx never decreases, and    *)
(* every timestep index that the expansion has processed, in the end every *)
(* index 0..total_steps-1, is carried by at least one frame, whatever the   *)
(* dispersal and the hold configuration.                                   *)
(***************************************************************************)
C7_GeoIndexMonotoneAndComplete ==
    /\ \A j \in 1..(Len(output_frames) - 1) :
          output_frames[j].geo_frame_idx <= output_frames[j + 1].geo_frame_idx
    /\ \A i \in Expanded : FrameCount(i) >= 1
    /\ pc \in {"export", "exported"} =>
          { output_frames[j].geo_frame_idx : j \in 1..Len(output_frames) }
             = 0..(total_steps - 1)

C7_Witness ==
    /\ pc = "exported"
    /\ total_steps = 3
    /\ hold_frames # EmptyDict
    /\ \E i \in 0..2 : IsOne(smooth_dispersal[i + 1]) /\ FrameCount(i) = 1
    /\ \E i \in 0..2 : FrameCount(i) > 3

(***************************************************************************)
(* C8.  The n-th frame record (from 0) carries anim_frame = n, hold frames *)
(* included, and the exported metadata.animation_frames is the number of   *)
(* frame records.                                                          *)
(***************************************************************************)
C8_AnimFrameIsPosition ==
    /\ \A j \in 1..Len(output_frames) : output_frames[j].anim_frame = j - 1
    /\ pc = "exported" =>
          /\ camera_path.frames = output_frames
          /\ camera_path.metadata.animation_frames = Len(camera_path.frames)
          /\ \A j \in 1..Len(camera_path.frames) :
                camera_path.frames[j].anim_frame = j - 1

C8_Witness ==
    /\ pc = "exported"
    /\ total_steps = 3
    /\ 1 \in DOMAIN hold_frames
    /\ camera_path.metadata.animation_frames > total_steps + 2
    /\ \E j \in 2..(Len(output_frames) - 1) :
          /\ output_frames[j - 1].geo_frame_idx = 1
          /\ output_frames[j].geo_frame_idx = 1
          /\ output_frames[j + 1].geo_frame_idx = 2
          /\ output_frames[j + 1].anim_frame = j

(***************************************************************************)
(* C9, as stated: every timestep has exactly                               *)
(* max(1, round(min_speed + (max_speed - min_speed) * (1 - dispersal)))    *)
(* frames; dispersal 1.0 everywhere gives exactly 1 frame per timestep,    *)
(* dispersal 0.0 everywhere round(max_speed) frames per timestep.          *)
(***************************************************************************)
C9_FrameCountIsPacedCount ==
    /\ \A i \in Expanded : FrameCount(i) = PacedFrames(smooth_dispersal[i + 1])
    /\ (\A i \in 0..(total_steps - 1) : IsOne(smooth_dispersal[i + 1]))
          => \A i \in Expanded : FrameCount(i) = 1
    /\ (\A i \in 0..(total_steps - 1) : IsZero(smooth_dispersal[i + 1]))
          => \A i \in Expanded : FrameCount(i) = MAX_SPEED

(***************************************************************************)
(* C9, amended: the regular frames of every timestep number                *)
(* max(1, round(min_speed + (max_speed - min_speed) * (1 - dispersal))),   *)
(* round taking a tie to the even integer, and a timestep that is a        *)
(* configured hold point has its extra frames on top of them; so with      *)
(* dispersal 1.0 everywhere a timestep has 1 frame plus its hold frames,   *)
(* with dispersal 0.0 everywhere round(max_speed) frames plus its hold     *)
(* frames.                                                                 *)
(***************************************************************************)
C9_RegularCountIsPacedCount ==
    /\ \A i \in Expanded :
          FrameCount(i) = PacedFrames(smooth_dispersal[i + 1]) + ConfiguredExtra(i)
    /\ (\A i \in 0..(total_steps - 1) : IsOne(smooth_dispersal[i + 1]))
          => \A i \in Expanded : FrameCount(i) = 1 + ConfiguredExtra(i)
    /\ (\A i \in 0..(total_steps - 1) : IsZero(smooth_dispersal[i + 1]))
          => \A i \in Expanded : FrameCount(i) = MAX_SPEED + ConfiguredExtra(i)

C9_Witness ==
    /\ pc = "exported"
    /\ total_steps = 3
    /\ \A i \in 0..2 : IsOne(smooth_dispersal[i + 1])
    /\ ConfiguredExtra(1) = 2
    /\ FrameCount(0) = 1
    /\ FrameCount(1) = 3
    /\ FrameCount(2) = 1

\* a tie of the multiplier (2.5) resolved to the even count
C9_TieWitness ==
    /\ pc = "exported"
    /\ \E i \in Expanded :
          /\ 4 * smooth_dispersal[i + 1][1] = smooth_dispersal[i + 1][2]
          /\ RegularCount(i) = 2

(***************************************************************************)
(* C10.  Three timesteps, the first a supercontinent (raw dispersal lower  *)
(* than that of the other two), run through normalisation, smoothing with  *)
(* SMOOTH_SIGMA and expansion.                                             *)
(***************************************************************************)
SupercontinentFirst ==
    /\ total_steps = 3
    /\ dispersal[1] < dispersal[2]
    /\ dispersal[1] < dispersal[3]

BlockStart(i) ==
    CHOOSE j \in 1..Len(output_frames) :
        /\ output_frames[j].geo_frame_idx = i
        /\ \A k \in 1..(j - 1) : output_frames[k].geo_frame_idx # i

RegularFrames(i) == PacedFrames(smooth_dispersal[i + 1])

\* the float r is the number x
IsNumber(r, x) == r[1] = x * r[2]

\* the float r is (1 - s/k) * a + (s/k) * b
IsBetween(r, a, b, s, k) == r[1] * k = (a * (k - s) + b * s) * r[2]

(***************************************************************************)
(* C11.  Sub-frame s of the k regular frames of timestep i is at           *)
(* (1 - s/k) * smooth[i] + (s/k) * smooth[i+1] in longitude and latitude:  *)
(* sub-frame 0 is at smooth[i] and no sub-frame is at a different          *)
(* smooth[i+1]; every sub-frame of the last timestep is at smooth[i].      *)
(***************************************************************************)
C11_SubFramesInterpolate ==
    \A i \in Expanded :
        LET k == RegularFrames(i)
        IN \A sub \in 0..(k - 1) :
              LET f == output_frames[BlockStart(i) + sub]
              IN IF i < total_steps - 1
                 THEN /\ IsBetween(f.camera_lon, smooth_lons[i + 1], smooth_lons[i + 2], sub, k)
                      /\ IsBetween(f.camera_lat, smooth_lats[i + 1], smooth_lats[i + 2], sub, k)
                      /\ sub = 0 => /\ IsNumber(f.camera_lon, smooth_lons[i + 1])
                                    /\ IsNumber(f.camera_lat, smooth_lats[i + 1])
                      /\ smooth_lons[i + 2] # smooth_lons[i + 1]
                            => ~IsNumber(f.camera_lon, smooth_lons[i + 2])
                      /\ smooth_lats[i + 2] # smooth_lats[i + 1]
                            => ~IsNumber(f.camera_lat, smooth_lats[i + 2])
                 ELSE /\ IsNumber(f.camera_lon, smooth_lons[i + 1])
                      /\ IsNumber(f.camera_lat, smooth_lats[i + 1])

C11_Witness ==
    /\ pc = "exported"
    /\ total_steps = 3
    /\ smooth_lons = <<-40, -10, 20>>
    /\ RegularFrames(0) = 3
    /\ RegularFrames(2) = 3
    /\ output_frames[1].camera_lon = <<-120, 3>>
    /\ output_frames[2].camera_lon = <<-90, 3>>
    /\ output_frames[3].camera_lon = <<-60, 3>>
    /\ output_frames[3].camera_lat = <<30, 3>>
    /\ output_frames[Len(output_frames)].camera_lon = <<20, 1>>
    /\ output_frames[Len(output_frames) - 2].camera_lon = <<20, 1>>

(***************************************************************************)
(* C12.  A timestep i that is a configured hold point with extra frames    *)
(* has exactly extra frames right after its regular frames and before any  *)
(* frame of timestep i+1; each is at smooth[i] and has the time,           *)
(* geo_frame_idx, dispersal and era label of the timestep; a timestep that *)
(* is no hold point has its regular frames only.                           *)
(***************************************************************************)
C12_HoldFramesRepeatTimestep ==
    \A i \in Expanded :
        LET k == RegularFrames(i)
            extra == ConfiguredExtra(i)
            first == BlockStart(i)
        IN /\ FrameCount(i) = k + extra
           /\ \A j \in first..(first + k + extra - 1) :
                 output_frames[j].geo_frame_idx = i
           /\ \A h \in 0..(extra - 1) :
                 LET f == output_frames[first + k + h]
                 IN /\ IsNumber(f.camera_lon, smooth_lons[i + 1])
                    /\ IsNumber(f.camera_lat, smooth_lats[i + 1])
                    /\ f.time_ma = TIME_START - i * TIME_STEP
                    /\ f.time_ma = output_frames[first].time_ma
                    /\ f.dispersal = smooth_dispersal[i + 1]
                    /\ f.dispersal = output_frames[first].dispersal
                    /\ f.era_label = output_frames[first].era_label

C12_Witness ==
    /\ pc = "exported"
    /\ total_steps = 3
    /\ SUPERCONTINENT_HOLD = << <<1, 2>> >>
    /\ smooth_lons = <<-40, -10, 20>>
    /\ RegularFrames(1) = 2
    /\ FrameCount(0) = RegularFrames(0)
    /\ FrameCount(1) = 4
    /\ output_frames[BlockStart(1) + 1].camera_lon = <<10, 2>>
    /\ output_frames[BlockStart(1) + 2].camera_lon = <<-10, 1>>
    /\ output_frames[BlockStart(1) + 3].camera_lon = <<-10, 1>>
    /\ output_frames[BlockStart(1) + 4].geo_frame_idx = 2

(***************************************************************************)
(* C13.  Every frame carries its timestep's time and the label of the      *)
(* last keyframe of ERA_OVERRIDES whose time is >= that time; when the     *)
(* keyframes are authored in descending time, that keyframe has the        *)
(* smallest of the times >= the timestep's time; the regular and the hold  *)
(* frames of one timestep carry one label.                                 *)
(***************************************************************************)
AuthoredDescending ==
    \A j \in 1..(Len(ERA_OVERRIDES) - 1) : ERA_OVERRIDES[j][1] > ERA_OVERRIDES[j + 1][1]

C13_EraLabelIsLatestKeyframe ==
    \A j \in 1..Len(output_frames) :
        LET f == output_frames[j]
            S == { k \in 1..Len(ERA_OVERRIDES) : ERA_OVERRIDES[k][1] >= f.time_ma }
            last == CHOOSE k \in S : \A m \in S : m <= k
        IN /\ f.time_ma = TIME_START - f.geo_frame_idx * TIME_STEP
           /\ S # {} =>
                 /\ f.era_label = ERA_OVERRIDES[last][4]
                 /\ AuthoredDescending =>
                       \A m \in S : ERA_OVERRIDES[last][1] <= ERA_OVERRIDES[m][1]
           /\ \A m \in 1..Len(output_frames) :
                 output_frames[m].geo_frame_idx = f.geo_frame_idx
                    => output_frames[m].era_label = f.era_label

C13_Witness ==
    /\ pc = "exported"
    /\ total_steps = 3
    /\ ERA_OVERRIDES = EraList("ends")
    /\ hold_frames = (1 :> 2)
    /\ FrameCount(1) >= 3
    /\ \A j \in 1..Len(output_frames) :
          output_frames[j].era_label =
             IF output_frames[j].geo_frame_idx = 2 THEN EraLabel(0) ELSE EraLabel(2)

(***************************************************************************)
(* The plate model read directly.                                          *)
(***************************************************************************)
UsableGeoms(i) ==
    { k \in 1..Len(plate_model[i + 1].geoms) :
         /\ plate_model[i + 1].geoms[k].has_geom
         /\ plate_model[i + 1].geoms[k].has_points }

\* timestep i yields no usable polygon
NoPolygons(i) == UsableGeoms(i) = {}

\* the last timestep before i that yields a usable polygon, -1 if none does
LastObserved(i) ==
    LET S == { j \in 0..(i - 1) : ~NoPolygons(j) }
    IN IF S = {} THEN -1 ELSE CHOOSE j \in S : \A k \in S : k <= j

(***************************************************************************)
(* C14.  A timestep i > 0 without usable polygons gets the centroid and    *)
(* the raw dispersal of timestep i-1, which over a stretch of such         *)
(* timesteps are those of the last timestep that had polygons, and the run *)
(* goes on to the next timestep.                                           *)
(***************************************************************************)
C14_EmptyTimestepInherits ==
    /\ \A i \in 1..(Len(raw_lons) - 1) :
          NoPolygons(i) =>
             /\ raw_lons[i + 1] = raw_lons[i]
             /\ raw_lats[i + 1] = raw_lats[i]
             /\ LastObserved(i) >= 0 =>
                   /\ raw_lons[i + 1] = raw_lons[LastObserved(i) + 1]
                   /\ raw_lats[i + 1] = raw_lats[LastObserved(i) + 1]
    /\ \A i \in 1..(i_disp - 1) :
          NoPolygons(i) =>
             /\ dispersal[i + 1] = dispersal[i]
             /\ LastObserved(i) >= 0 => dispersal[i + 1] = dispersal[LastObserved(i) + 1]
    /\ (pc = "aborted" /\ i_cent < total_steps) => plate_model[i_cent + 1].fails = "first"
    /\ (pc = "aborted" /\ i_cent = total_steps) => plate_model[i_disp + 1].fails = "second"

C14_Witness ==
    /\ pc = "extracted"
    /\ total_steps = 3
    /\ ~NoPolygons(0)
    /\ plate_model[2].geoms = << >>
    /\ plate_model[3].geoms = <<NoGeom, NoPoints>>
    /\ raw_lons[1] # Zero
    /\ raw_lons[3] = raw_lons[1]
    /\ dispersal[1] = <<130, 100>>
    /\ dispersal[3] = dispersal[1]

(***************************************************************************)
(* C15.  A first timestep without usable polygons ends the run with a      *)
(* fatal error: the run never gets past it.                                *)
(***************************************************************************)
C15_EmptyStartIsFatal ==
    (plate_model[1].fails = "no" /\ NoPolygons(0)) => (i_cent = 0 /\ raw_lons = << >>)

(***************************************************************************)
(* C15, as the code has it.  A first timestep without usable polygons does *)
(* not end the run: it gets the zero default, centroid (0.0, 0.0), land    *)
(* area 0.0 and raw dispersal 0.0, and the loops go on after it.           *)
(***************************************************************************)
C15_EmptyStartGetsZeroDefault ==
    (plate_model[1].fails = "no" /\ NoPolygons(0)) =>
       /\ ~(pc = "aborted" /\ i_cent = 0)
       /\ i_cent >= 1 =>
             /\ Len(raw_lons) >= 1
             /\ raw_lons[1] = Zero
             /\ raw_lats[1] = Zero
             /\ land_areas[1] = 0
       /\ i_disp >= 1 => dispersal[1] = <<0, 1>>

C15_Witness ==
    /\ pc = "extracted"
    /\ total_steps = 2
    /\ plate_model[1].geoms = << >>
    /\ Len(plate_model[2].geoms) = 2
    /\ ~NoPolygons(1)
    /\ raw_lons[1] = Zero
    /\ raw_lons[2] # Zero
    /\ dispersal[1] = <<0, 1>>
    /\ dispersal[2] = <<130, 100>>

(***************************************************************************)
(* C16.  A reconstruct call that fails does not abort the run: the run is  *)
(* aborted at the very first timestep only.                                *)
(***************************************************************************)
C16_QueryFailureNeverAborts ==
    pc = "aborted" => i_cent = 0

(***************************************************************************)
(* C17.  The centroid loop has dealt with i_cent timesteps and raw_lons,   *)
(* raw_lats and land_areas hold one entry for each of them, made from the  *)
(* plate model at that timestep (land_areas one more while the clustering  *)
(* of a timestep is under way); after the loops all four arrays hold       *)
(* total_steps entries.                                                    *)
(***************************************************************************)
ClampedArea(rg) == IF rg.area_raises \/ rg.area <= 0 THEN TINY_AREA ELSE rg.area

RECURSIVE SumClamped(_, _)
SumClamped(S, geoms) ==
    IF S = {} THEN 0
    ELSE LET k == CHOOSE x \in S : TRUE
         IN ClampedArea(geoms[k]) + SumClamped(S \ {k}, geoms)

LandArea(i) == SumClamped(UsableGeoms(i), plate_model[i + 1].geoms)

C17_OneEntryPerTimestep ==
    /\ Len(raw_lons) = i_cent
    /\ Len(raw_lats) = i_cent
    /\ Len(land_areas) = IF pc \in {"cluster", "centroid_of_cluster"} THEN i_cent + 1 ELSE i_cent
    /\ pc \in {"dispersal", "extracted"} =>
          /\ i_cent = total_steps
          /\ Len(dispersal) = total_steps
    /\ pc = "extracted" => i_disp = total_steps
    /\ \A i \in 0..(Len(raw_lons) - 1) :
          ~NoPolygons(i) =>
             /\ raw_lons[i + 1].value = "centroid_lon"
             /\ raw_lats[i + 1].value = "centroid_lat"
             /\ \A m \in 1..Len(raw_lons[i + 1].cluster) :
                   \E k \in UsableGeoms(i) :
                      /\ plate_model[i + 1].geoms[k].lon = raw_lons[i + 1].cluster[m][2]
                      /\ ClampedArea(plate_model[i + 1].geoms[k]) = raw_lons[i + 1].cluster[m][3]
    /\ \A i \in 0..(Len(land_areas) - 1) :
          plate_model[i + 1].geoms # << >> => land_areas[i + 1] = LandArea(i)

C17_Witness ==
    /\ pc = "extracted"
    /\ total_steps = 3
    /\ plate_model[1].geoms = << >>
    /\ plate_model[2].geoms = <<NoGeom, NoPoints>>
    /\ Len(plate_model[3].geoms) = 2
    /\ ~NoPolygons(2)
    /\ raw_lons[1] = Zero
    /\ raw_lons[2] = Zero
    /\ raw_lons[3] # Zero
    /\ land_areas = <<0, 0, 100>>
    /\ Len(dispersal) = 3

(***************************************************************************)
(* C18.  The raw dispersal of a timestep with polygons is the mean of the  *)
(* polygons' distances to the centroid weighted by the clamped area, the   *)
(* same weight above and below the line, so it is at least 0 and at most   *)
(* the largest of the distances.                                           *)
(***************************************************************************)
FlooredArea(rg) == IF rg.area_raises \/ rg.area < TINY_AREA THEN TINY_AREA ELSE rg.area

RECURSIVE WeightedDist(_, _, _)
WeightedDist(S, geoms, floored) ==
    IF S = {} THEN <<0, 0>>
    ELSE LET k == CHOOSE x \in S : TRUE
             w == IF floored THEN FlooredArea(geoms[k]) ELSE ClampedArea(geoms[k])
             rest == WeightedDist(S \ {k}, geoms, floored)
         IN <<w * geoms[k].dist + rest[1], w + rest[2]>>

LargestDist(i) ==
    LET geoms == plate_model[i + 1].geoms
    IN CHOOSE d \in { geoms[k].dist : k \in UsableGeoms(i) } :
          \A k \in UsableGeoms(i) : geoms[k].dist <= d

C18_DispersalIsWeightedMean ==
    \A i \in 0..(i_disp - 1) :
       ~NoPolygons(i) =>
          /\ \E floored \in BOOLEAN :
                LET m == WeightedDist(UsableGeoms(i), plate_model[i + 1].geoms, floored)
                IN dispersal[i + 1][1] * m[2] = m[1] * dispersal[i + 1][2]
          /\ dispersal[i + 1][2] > 0
          /\ dispersal[i + 1][1] >= 0
          /\ dispersal[i + 1][1] <= LargestDist(i) * dispersal[i + 1][2]

(***************************************************************************)
(* C19.  The thresholds are tried in ascending order; best_cluster is the  *)
(* cluster of largest area at the threshold tried last; the escalation     *)
(* stops at the first threshold whose dominant cluster covers at least     *)
(* half of the land, or at the last threshold if none does; the cluster    *)
(* kept is never empty.                                                    *)
(***************************************************************************)
RECURSIVE Grow(_, _)
Grow(S, threshold) ==
    LET n == Len(poly_data)
        T == S \cup { b \in 0..(n - 1) :
                        \E a \in S : haversine_deg(poly_data[a + 1].lat, poly_data[a + 1].lon,
                                                   poly_data[b + 1].lat, poly_data[b + 1].lon)
                                        < threshold }
    IN IF T = S THEN S ELSE Grow(T, threshold)

RECURSIVE SetArea(_)
SetArea(S) ==
    IF S = {} THEN 0
    ELSE LET a == CHOOSE x \in S : TRUE
         IN poly_data[a + 1].area + SetArea(S \ {a})

DominantArea(threshold) ==
    LET A == { SetArea(Grow({a}, threshold)) : a \in 0..(Len(poly_data) - 1) }
    IN CHOOSE x \in A : \A y \in A : y <= x

CoverageReached(threshold) ==
    /\ total_area > 0
    /\ DominantArea(threshold) * MIN_CLUSTER_COVERAGE[2] >= MIN_CLUSTER_COVERAGE[1] * total_area

Members(cluster) == { cluster[k] : k \in 1..Len(cluster) }

C19_FirstThresholdWithCoverage ==
    /\ \A k \in 1..(Len(CLUSTER_THRESHOLDS) - 1) : CLUSTER_THRESHOLDS[k] < CLUSTER_THRESHOLDS[k + 1]
    /\ (pc \in {"cluster", "centroid_of_cluster"} /\ t_idx >= 1) =>
          /\ poly_data # << >>
          /\ used_threshold = CLUSTER_THRESHOLDS[t_idx]
          /\ best_cluster # << >>
          /\ Cardinality(Members(best_cluster)) = Len(best_cluster)
          /\ Members(best_cluster) = Grow({best_cluster[1]}, used_threshold)
          /\ SetArea(Members(best_cluster)) = DominantArea(used_threshold)
          /\ coverage[1] * total_area = DominantArea(used_threshold) * coverage[2]
          /\ \A k \in 1..(t_idx - 1) : ~CoverageReached(CLUSTER_THRESHOLDS[k])
          /\ pc = "cluster" =>
                /\ ~CoverageReached(used_threshold)
                /\ t_idx < Len(CLUSTER_THRESHOLDS)
          /\ pc = "centroid_of_cluster" =>
                \/ CoverageReached(used_threshold)
                \/ t_idx = Len(CLUSTER_THRESHOLDS)

C19_Witness ==
    /\ pc = "centroid_of_cluster"
    /\ Len(poly_data) = 3
    /\ t_idx = 2
    /\ used_threshold = 18
    /\ ~CoverageReached(12)
    /\ CoverageReached(18)
    /\ Len(best_cluster) = 2

(***************************************************************************)
(* C20.  For the polygons of a timestep the coverage of the dominant       *)
(* cluster does not go down from one threshold to the next larger one.     *)
(***************************************************************************)
CoverageAt(k) == cluster_at(poly_data, total_area, CLUSTER_THRESHOLDS[k]).coverage

C20_CoverageNeverShrinks ==
    (pc \in {"cluster", "centroid_of_cluster"}) =>
       \A k \in 1..(Len(CLUSTER_THRESHOLDS) - 1) :
          CoverageAt(k)[1] * CoverageAt(k + 1)[2] <= CoverageAt(k + 1)[1] * CoverageAt(k)[2]

C20_Witness ==
    /\ pc = "centroid_of_cluster"
    /\ t_idx = 3
    /\ Len(poly_data) = 3
    /\ CoverageAt(1) = CoverageAt(2)
    /\ CoverageAt(2)[1] * CoverageAt(3)[2] < CoverageAt(3)[1] * CoverageAt(2)[2]
    /\ coverage = CoverageAt(3)

(***************************************************************************)
(* C23.  The normalised dispersal exists for every timestep at once, made  *)
(* from the complete raw series with one minimum and one maximum: every    *)
(* value lies in [0, 1], differences of normalised values are the raw      *)
(* differences on the one scale max - min, a timestep at the minimum has 0 *)
(* and one at the maximum has 1, and a series of equal values gives 0      *)
(* everywhere with a denominator that is never 0.                          *)
(***************************************************************************)
C23_NormalisedToUnitInterval ==
    dispersal_norm # << >> =>
       LET d_min == SeqMin(dispersal)
           d_max == SeqMax(dispersal)
       IN /\ Len(dispersal) = total_steps
          /\ Len(dispersal_norm) = total_steps
          /\ \A j \in 1..total_steps :
                /\ dispersal_norm[j][2] > 0
                /\ 0 <= dispersal_norm[j][1]
                /\ dispersal_norm[j][1] <= dispersal_norm[j][2]
                /\ dispersal[j] = d_min => dispersal_norm[j][1] = 0
                /\ (dispersal[j] = d_max /\ d_max > d_min) =>
                      dispersal_norm[j][1] = dispersal_norm[j][2]
                /\ d_max = d_min => dispersal_norm[j][1] = 0
          /\ \A j, k \in 1..total_steps :
                (dispersal_norm[j][1] * dispersal_norm[k][2]
                     - dispersal_norm[k][1] * dispersal_norm[j][2]) * (d_max - d_min)
                  = (dispersal[j] - dispersal[k]) * dispersal_norm[j][2] * dispersal_norm[k][2]

C23_Witness ==
    /\ pc = "pacing"
    /\ dispersal = <<1, RawMax, 2>>
    /\ dispersal_norm = << <<0, RawMax - 1>>, <<RawMax - 1, RawMax - 1>>, <<1, RawMax - 1>> >>

(***************************************************************************)
(* The keyframes read directly: the value that a straight line between two *)
(* keyframes has at a time, and the keyframes on either side of a time.    *)
(***************************************************************************)
LineAt(ta, ya, tb, yb, t) ==
    frac_add(yb, frac_div(frac_mul(frac_sub(ya, yb), whole(t - tb)), whole(ta - tb)))

InRange(x) == x[1] >= 0 /\ x[1] <= x[2]

\* ys[k] is the value authored for keyframe k; got is the value at time t
HeldOrInterpolated(ys, t, got) ==
    LET n == Len(ERA_OVERRIDES)
    IN /\ t > ERA_OVERRIDES[1][1] => got = ys[1]
       /\ t < ERA_OVERRIDES[n][1] => got = ys[n]
       /\ \A k \in 1..(n - 1) :
             (ERA_OVERRIDES[k][1] >= t /\ t >= ERA_OVERRIDES[k + 1][1]) =>
                got = LineAt(ERA_OVERRIDES[k][1], ys[k], ERA_OVERRIDES[k + 1][1], ys[k + 1], t)

MovedTowards(raw, w, ov) == frac_add(raw, frac_mul(w, frac_sub(ov, raw)))

C22_BlendIsWeightedMix ==
    blended_lons # << >> =>
       /\ Len(blended_lons) = total_steps
       /\ Len(blended_lats) = total_steps
       /\ \A j \in 1..total_steps :
             /\ blended_lons[j] = MovedTowards(raw_lons[j], override_weights[j], override_lons[j])
             /\ blended_lats[j] = MovedTowards(raw_lats[j], override_weights[j], override_lats[j])
             /\ override_weights[j] = whole(0) =>
                   /\ blended_lons[j] = raw_lons[j]
                   /\ blended_lats[j] = raw_lats[j]
             /\ override_weights[j] = whole(1) =>
                   /\ blended_lons[j] = override_lons[j]
                   /\ blended_lats[j] = override_lats[j]
                   /\ \A k \in 1..Len(ERA_OVERRIDES) :
                         (ERA_OVERRIDES[k][1] = times(j - 1) /\ ERA_OVERRIDES[k][2] # << >>) =>
                            /\ blended_lons[j] = ERA_OVERRIDES[k][2]
                            /\ blended_lats[j] = ERA_OVERRIDES[k][3]
             /\ (ERA_OVERRIDES = ConfiguredEras /\ times(j - 1) >= 750) =>
                   /\ override_weights[j] = whole(0)
                   /\ blended_lons[j] = raw_lons[j]
                   /\ blended_lats[j] = raw_lats[j]

C22_Witness ==
    /\ pc = "smooth"
    /\ total_steps = ConfiguredSteps
    /\ ERA_OVERRIDES = ConfiguredEras
    /\ raw_lons[1] = whole(-180)
    /\ times(250) = 750
    /\ blended_lons[251] = raw_lons[251]
    /\ override_weights[252] = <<1, 400>>
    /\ blended_lons[252] # raw_lons[252]
    /\ override_weights[751] = <<7, 10>>
    /\ blended_lons[751] = frac_add(frac_mul(raw_lons[751], <<3, 10>>), whole(0))

(***************************************************************************)
(* C24.  The smoothed track is the smoothing of the blended track, which   *)
(* is the blend of the computed centroids: the smoothing comes after the   *)
(* blend and takes the blended positions.                                  *)
(***************************************************************************)
BlendedTrack ==
    [j \in 1..total_steps |->
        unit_vector(MovedTowards(raw_lons[j], override_weights[j], override_lons[j]),
                    MovedTowards(raw_lats[j], override_weights[j], override_lats[j]))]

WrittenFrames == { f \in frames_dir : f.time_ma >= 0 }

Spelled(name) == name[2][1] * 1000 + name[2][2] * 100 + name[2][3] * 10 + name[2][4]

FramePerTimestep ==
    /\ \A f \in WrittenFrames :
          /\ f.name[1] = "globe_frame_"
          /\ f.name[3] = ".png"
          /\ Len(f.name[2]) = 4
          /\ \A k \in 1..4 : f.name[2][k] \in 0..9
          /\ f.time_ma = 1000 - Spelled(f.name)
          /\ f.time_ma <= 1000
    /\ \A f, g \in WrittenFrames : f.time_ma = g.time_ma => f = g
    /\ \A t \in 0..1000 : \E f \in WrittenFrames : f.time_ma = t

MissingAtStart == (1..NFrames) \ existing

RenderedSoFar == { remaining[k].anim_frame + 1 : k \in 1..i_rem }

C26_OnlyMissingFramesRendered ==
    pc \in {"remaining", "done"} =>
        /\ { remaining[k].anim_frame + 1 : k \in 1..Len(remaining) } = MissingAtStart
        /\ \A k \in 1..(Len(remaining) - 1) :
               remaining[k].anim_frame < remaining[k + 1].anim_frame
        /\ i_rem <= Len(remaining)
        /\ DOMAIN out_rem = RenderedSoFar
        /\ Cardinality(DOMAIN out_rem) = i_rem
        /\ DOMAIN out_rem \cap existing = {}
        /\ (MissingAtStart = {} => pc = "done" /\ i_rem = 0 /\ out_rem = EmptyDict)
        /\ (pc = "done" => existing \cup DOMAIN out_rem = 1..NFrames)

C26_Witness ==
    /\ pc = "done"
    /\ NFrames >= 5
    /\ existing = {1, 3}
    /\ DOMAIN out_rem = (1..NFrames) \ {1, 3}
    /\ i_rem = NFrames - 2

(***************************************************************************)
(* C27.  After the unions of one threshold two polygons have the same      *)
(* find_root exactly when a chain of pairs, each with a centroid distance  *)
(* strictly below the threshold, connects them: a pair lying exactly at    *)
(* the threshold is joined only through such a chain.  The partition is    *)
(* the same for every order in which the pairs are united, whatever paths  *)
(* were halved and whichever root the ranks chose, and the candidate       *)
(* cluster is a connected component of greatest summed area.  Stated of    *)
(* the polygons of a timestep once its threshold loop is over, for every   *)
(* threshold of the list.                                                  *)
(***************************************************************************)
PolyIdx == 0..(Len(poly_data) - 1)

PolyDist(a, b) ==
    haversine_deg(poly_data[a + 1].lat, poly_data[a + 1].lon,
                  poly_data[b + 1].lat, poly_data[b + 1].lon)

\* the parent list after the unions of the pairs taken in the order keys
ParentAfter(keys, threshold) ==
    LET n == Len(poly_data)
    IN union_loop([k \in 1..n |-> k - 1], [k \in 1..n |-> 0], keys, poly_data, threshold)[1]

RootIn(parent, a) == find_root(parent, a)[2]

\* the insertion order of pairwise_dist, its reverse, and every rotation of
\* the two: for three polygons these are all the orders of the three pairs
PairOrders ==
    LET keys == pair_keys(Len(poly_data))
        m == Len(keys)
        Rotated(xs, r) == [k \in 1..m |-> xs[((k + r - 1) % m) + 1]]
    IN { Rotated(keys, r) : r \in 0..(m - 1) }
          \cup { Rotated(reversed(keys), r) : r \in 0..(m - 1) }

ComponentsFollowChains(threshold) ==
    LET component == [a \in PolyIdx |-> Grow({a}, threshold)]
    IN \A keys \in PairOrders :
          LET parent == ParentAfter(keys, threshold)
              root == [a \in PolyIdx |-> RootIn(parent, a)]
          IN \A a, b \in PolyIdx : (root[a] = root[b]) <=> (b \in component[a])

CandidateIsGreatestComponent(threshold) ==
    LET c == cluster_at(poly_data, total_area, threshold)
    IN /\ c.candidate # << >>
       /\ Members(c.candidate) = Grow({c.candidate[1]}, threshold)
       /\ Cardinality(Members(c.candidate)) = Len(c.candidate)
       /\ c.candidate_area = SetArea(Members(c.candidate))
       /\ \A a \in PolyIdx : SetArea(Grow({a}, threshold)) <= c.candidate_area

WrittenGlobe(ri) ==
    LET runs == runs_globe(path_frames)
        half == half_globe(runs[ri], runs[ri + 1], crossfade_half)
    IN IF half < 1 THEN {}
       ELSE { anim_idx_globe(runs[ri + 1][2], half, k) : k \in 0..(2 * half - 1) }

WrittenFlat(ri) ==
    LET runs == runs_flat(path_frames)
        half == half_flat(runs[ri], runs[ri + 1], crossfade_half)
    IN IF half < 1 THEN {}
       ELSE { anim_idx_flat(runs[ri + 1][2], half, k) : k \in 0..(2 * half - 1) }

RECURSIVE SumOfWindows(_)
SumOfWindows(B) ==
    IF B = {} THEN 0
    ELSE LET t == CHOOSE x \in B : TRUE
         IN (IF HalfAt(t) < 1 THEN 0 ELSE 2 * HalfAt(t)) + SumOfWindows(B \ {t})

WindowsApart(m, written(_), nruns) ==
    /\ \A ri, rj \in 1..(nruns - 1) : ri # rj => written(ri) \cap written(rj) = {}
    /\ \A ri \in 1..(nruns - 1) :
          /\ written(ri) \subseteq 0..(NFrames - 1)
          /\ \E t \in Boundaries :
                /\ Cardinality({ u \in Boundaries : u <= t }) = ri
                /\ written(ri) = WindowOf(t)
    /\ DOMAIN m = UNION { written(ri) : ri \in 1..(nruns - 1) }
    /\ \A j \in DOMAIN m :
          /\ Cardinality({ ri \in 1..(nruns - 1) : j \in written(ri) }) = 1
          /\ Cardinality({ t \in Boundaries : j \in WindowOf(t) }) = 1
          /\ \A t \in Boundaries :
                j \in WindowOf(t) => m[j][1] = Geo(t - 1) /\ m[j][2] = Geo(t)
    /\ Cardinality(DOMAIN m) = SumOfWindows(Boundaries)

C28_WindowsNeverOverlap ==
    /\ "globe" \in called =>
          WindowsApart(map_globe, WrittenGlobe, Len(runs_globe(path_frames)))
    /\ "flat" \in called =>
          WindowsApart(map_flat, WrittenFlat, Len(runs_flat(path_frames)))

\* two windows, both cut short by the run lengths, that fill the middle run
\* of four frames and meet in it
C28_Witness ==
    /\ called = {"globe", "flat", "test"}
    /\ crossfade_half = 3
    /\ \E t1, t2 \in Boundaries :
          /\ t2 = t1 + 4
          /\ HalfAt(t1) = 2
          /\ HalfAt(t2) = 2
          /\ WindowOf(t1) \cup WindowOf(t2) = (t1 - 2)..(t2 + 1)
          /\ Geo(t1 - 1) = Geo(t2)
    /\ Cardinality(DOMAIN map_flat) = 8
    /\ Cardinality(DOMAIN map_globe) = 8

(***************************************************************************)
(* C30.  The per-frame loop of render_globe.py never removes an image that *)
(* is still bound to slot A or slot B, for every frame list, those with    *)
(* boundaries that get no crossfade included: both slots hold a live image *)
(* at every frame, the images freed by a frame are bound to neither slot,  *)
(* and whenever prev_geo_a or prev_geo_b lets a frame skip its load the    *)
(* slot still holds the live image of that geo index.                      *)
(***************************************************************************)
\* the geo indices frame i asks for in slot A and slot B (B only on a
\* crossfade frame)
WantedA(i) == IF i \in DOMAIN map_globe THEN map_globe[i][1] ELSE Geo(i)

WantedB(i) == IF i \in DOMAIN map_globe THEN {map_globe[i][2]} ELSE {}

Live(img) == img # NoImage /\ img \in images

C30_BoundImagesStayLive ==
    /\ [](/\ Live(tex_image_a)
          /\ Live(tex_image_b)
          /\ prev_geo_a # -1 => tex_image_a = prev_geo_a
          /\ prev_geo_b # -1 => tex_image_b = prev_geo_b
          /\ \A k \in 1..Len(out_globe) :
                /\ out_globe[k].a # NoImage /\ out_globe[k].a \in out_globe[k].imgs
                /\ out_globe[k].b # NoImage /\ out_globe[k].b \in out_globe[k].imgs
                /\ out_globe[k].a = WantedA(k - 1)
                /\ \A g \in WantedB(k - 1) : out_globe[k].b = g)
    /\ [][GlobeFrame =>
            /\ (images \ images') \cap {tex_image_a', tex_image_b'} = {}
            /\ {tex_image_a', tex_image_b'} \subseteq images'
            /\ (WantedA(i_globe) = prev_geo_a) =>
                  tex_image_a' = tex_image_a /\ Live(tex_image_a) /\ tex_image_a \in images'
            /\ (\A g \in WantedB(i_globe) : g = prev_geo_b) =>
                  tex_image_b' = tex_image_b /\ tex_image_b \in images']_vars

\* a frame list that returns to geo 0 through a run of one frame (no
\* crossfade at either boundary): image 0 of slot A is replaced while slot B
\* keeps it, and the frames of the last run skip their load
C30_Witness ==
    /\ pc = "flat"
    /\ NFrames >= 4
    /\ \E t \in Boundaries : HalfAt(t) < 1
    /\ \E k \in 2..Len(out_globe) :
          /\ out_globe[k].a # out_globe[k - 1].a
          /\ out_globe[k - 1].a = out_globe[k].b
          /\ out_globe[k - 1].a \in out_globe[k].imgs
    /\ \E k \in 2..Len(out_globe) :
          out_globe[k - 1].imgs \ out_globe[k].imgs # {}
    /\ \E k \in 2..Len(out_globe) :
          /\ (k - 1) \notin DOMAIN map_globe
          /\ Geo(k - 1) = Geo(k - 2)
          /\ out_globe[k].a = Geo(k - 1)

(***************************************************************************)
(* C29.  The TimeLabel events a renderer writes tile the timeline: the     *)
(* first block starts at frame 0, each block starts at the frame where the *)
(* block before it ends, the last block ends at the total frame count, and *)
(* there is exactly one block for each maximal run of frames of equal      *)
(* (time_ma, era_label), so that every frame lies in exactly one block.    *)
(* A timestamp stands for the frame whose instant frame / FPS it gives to  *)
(* the nearest hundredth of a second.                                      *)
(***************************************************************************)
SubLabel(i) == <<path_frames[i + 1].time_ma, path_frames[i + 1].era_label>>

SubRunStarts == { i \in 0..(NFrames - 1) : i = 0 \/ SubLabel(i) # SubLabel(i - 1) }

Hundredths(ts) == (ts[1] * 60 + ts[2]) * 6000 + ts[3]

StampOf(ts, f, fps) ==
    /\ ts[1] >= 0
    /\ ts[2] \in 0..59
    /\ ts[3] \in 0..5999
    /\ 2 * Abs(fps * Hundredths(ts) - 100 * f) <= fps

\* frame f is not before the frame stamped start_ts and before the one
\* stamped end_ts
InBlock(e, f, fps) ==
    /\ 2 * (100 * f - fps * Hundredths(e.start)) >= -fps
    /\ 2 * (100 * f - fps * Hundredths(e.end)) < -fps

TimeLabelsOf(st) == SelectSeq(st.ass_events, LAMBDA e : e.style = "TimeLabel")

TilesTimeline(st, fps) ==
    LET tl == TimeLabelsOf(st)
        starts == SubRunStarts
        n == Cardinality(starts)
        NthRunStart(k) ==
            IF k > n THEN NFrames
            ELSE CHOOSE s \in starts : Cardinality({ u \in starts : u < s }) = k - 1
    IN /\ Len(tl) = n
       /\ \A k \in 1..Len(tl) :
             /\ StampOf(tl[k].start, NthRunStart(k), fps)
             /\ StampOf(tl[k].end, NthRunStart(k + 1), fps)
             /\ Hundredths(tl[k].start) < Hundredths(tl[k].end)
       /\ tl[1].start = <<0, 0, 0>>
       /\ \A k \in 1..(Len(tl) - 1) : tl[k].end = tl[k + 1].start
       /\ StampOf(tl[Len(tl)].end, NFrames, fps)
       /\ \A f \in 0..(NFrames - 1) :
             /\ Cardinality({ k \in 1..Len(tl) : InBlock(tl[k], f, fps) }) = 1
             /\ \A k \in 1..Len(tl) :
                   InBlock(tl[k], f, fps) => tl[k].text = <<SubLabel(f)[1], " Ma">>

C29_TimeLabelsTileTimeline ==
    /\ (pc \in {"subtitles globe", "subtitles flat", "subtitles done"}
           /\ ass_events_globe.written)
          => TilesTimeline(ass_events_globe, FPS_GLOBE)
    /\ (pc \in {"subtitles globe", "subtitles flat", "subtitles done"}
           /\ ass_events_flat.written)
          => TilesTimeline(ass_events_flat, FPS_FLAT)

\* 1501 frames in runs of 1439, 2 and 60: the second block runs from
\* 0:00:59.96 to 0:01:00.04, the last one ends at 0:01:02.54, and the one
\* EraLabel event shares the first block's times
C29_Witness ==
    /\ pc = "subtitles done"
    /\ NFrames = 1501
    /\ ass_events_globe.written
    /\ ass_events_flat.written
    /\ Len(TimeLabelsOf(ass_events_globe)) = 3
    /\ Len(ass_events_globe.ass_events) = 4
    /\ TimeLabelsOf(ass_events_globe)[2].start = <<0, 0, 5996>>
    /\ TimeLabelsOf(ass_events_globe)[2].end = <<0, 1, 4>>
    /\ TimeLabelsOf(ass_events_flat)[3].end = <<0, 1, 254>>
    /\ TimeLabelsOf(ass_events_flat)[3].text = <<0, " Ma">>
    /\ ass_events_flat.ass_events = ass_events_globe.ass_events

=============================================================================
